---------------------------- MODULE Spec2Model ----------------------------
(***************************************************************************)
(* TruthLens backend, analysis pipeline.                                   *)
(*                                                                         *)
(*   SpecCache    IntelligentCache used by one caller at a time            *)
(*                (services/ai/cache_manager.py)                           *)
(*   SpecThreads  the same cache object used by several worker threads,    *)
(*                one interpreter step at a time                           *)
(*   SpecScorer   LightweightAIEnhancer.analyze_content_enhanced and       *)
(*                OptimizedBatchProcessor._analyze_single_item             *)
(*                                                                         *)
(* Time is a natural-number clock advanced by Tick.  None is the string    *)
(* "None".  A disk record is absent, an entry, or corrupt (unloadable).    *)
(***************************************************************************)
EXTENDS Integers, Sequences, FiniteSets, TLC

VARIABLES
    now,            \* time.time()
    memory_cache,   \* IntelligentCache.memory_cache : key -> entry | absent
    disk,           \* files <cache_dir>/<key>.cache  : key -> record
    last,           \* the call that has just returned (observation)
    lastSet,        \* per key, the latest set() call completed on it, when
                    \* no other set on the key overlapped it (observation)
    nsets,          \* number of set() calls made so far
    threads,        \* per worker thread: the call it is in and its locals
    done,           \* the thread call that has just ended (observation)
    cache,          \* LightweightAIEnhancer.cache : set of stored results
    req,            \* the (content, url) request the run scores
    sc,             \* the scorer call that has just ended (observation)
    fusion,         \* one call of _combine_results: its arguments and result
    riskCall,       \* one call of risk_score: its arguments and result
    processing_queue,   \* OptimizedBatchProcessor.processing_queue
    batch_size,         \* OptimizedBatchProcessor.batch_size
    requests,       \* the list a run gives to process_high_priority
    dispatch,       \* the sub-batches that the scheduler call that has just
                    \* returned submitted through process_batch (observation)
    executor,       \* OptimizedBatchProcessor.executor: running or shut down
    batchCall,      \* the scheduler call that has just returned (observation)
    timing,         \* one fast-track call on the clock: how long each scoring
                    \* takes, and when the call returns what
    metrics,        \* PerformanceMonitor.metrics
    request_times,  \* PerformanceMonitor.request_times
    workload,       \* the requests a run records on the monitor
    monitorCall,    \* the monitor call that has just returned (observation)
    monitorThreads, \* per thread using the monitor: its call and its locals
    lock,           \* PerformanceMonitor.lock: the thread holding it
    seen,           \* what the latest get_metrics of a thread returned
    recorded,       \* record_request calls of threads that have returned
    analysis_cache, \* main.analysis_cache : market id -> latest AnalysisResult
    oracle_status,  \* main.oracle_status
    pass,           \* the perform_analysis coroutine: its position and locals
    aggregates,     \* the status values that complete passes have written
    oracleRead,     \* the oracle query that has just returned (observation)
    callers,        \* per thread calling the scheduler: its call and locals
    ledger,         \* the requests appended to the queue and the results
                    \* that process_batch calls have returned (observation)
    heap,           \* the result dicts created so far, by object identity
    lw_held,        \* per key, the dict held in lightweight_ai.cache
    handed,         \* the results that calls have returned, each with the
                    \* request it was returned for (observation)
    tagCall         \* the batch call that has just returned (observation)

vars == <<now, memory_cache, disk, last, lastSet, nsets, threads, done,
          cache, req, sc, fusion, riskCall,
          processing_queue, batch_size, requests, dispatch, executor,
          batchCall, timing,
          metrics, request_times, workload, monitorCall,
          monitorThreads, lock, seen, recorded,
          analysis_cache, oracle_status, pass, aggregates, oracleRead,
          callers, ledger, heap, lw_held, handed, tagCall>>

cacheVars == <<memory_cache, disk, last, lastSet, nsets>>
threadVars == <<threads, done>>
scorerVars == <<cache, req, sc>>
fusionVars == <<fusion>>
\* the state of the components other than the cache and the scorer
riskVars == <<riskCall>>
batchVars == <<processing_queue, batch_size, requests, dispatch, executor,
              batchCall>>
timingVars == <<timing>>
\* the state of the components other than the cache, the scorer and the
\* scheduler
monitorVars == <<metrics, request_times, workload, monitorCall>>
monitorThreadVars == <<monitorThreads, lock, seen, recorded>>
oracleVars == <<analysis_cache, oracle_status, pass, aggregates, oracleRead>>
callerVars == <<callers, ledger>>
resultVars == <<heap, lw_held, handed, tagCall>>
furtherVars == <<callerVars, resultVars>>
restVars == <<timingVars, monitorVars, monitorThreadVars, oracleVars,
              furtherVars>>
serviceVars == <<fusionVars, riskVars, batchVars, restVars>>

----------------------------------------------------------------------------
(* Bounds *)

MaxTime == 2
MaxSets == 2         \* set() calls explored per run
MaxCalls == 2        \* calls each worker thread makes per run (SpecThreads)
RiskSteps == 4       \* pattern risks tried on _combine_results: i / RiskSteps
MaxBatchSize == 2    \* batch sizes a scheduler is built with: 1 .. MaxBatchSize
MaxSplitSize == 11   \* batch sizes tried on the priority split: 2 .. MaxSplitSize
MaxQueued == 3       \* requests left pending by refused calls: at most MaxQueued
MaxRecorded == 102   \* requests recorded on the monitor between two resets
MaxPasses == 2       \* perform_analysis passes per run
MaxRecords == 2      \* record_request calls the threads of a run make

Keys == {"k1", "k2"}
Threads == {"t1", "t2"}
HotKeys == {"k1"}       \* the keys the worker threads contend for
Data == {"v1", "v2"}
None == "None"

\* The ttl argument of set(): <<>> is None (argument omitted), <<n>> is n.
TtlArgs == {<<>>} \cup {<<n>> : n \in -1 .. 1}

\* Outcome of the best-effort disk write of set().
WriteOutcomes == {"ok", "open_fails", "dump_fails"}

----------------------------------------------------------------------------
(* Cache records *)

Absent == [kind |-> "none", data |-> None, timestamp |-> 0, ttl |-> 0]
Corrupt == [kind |-> "corrupt", data |-> None, timestamp |-> 0, ttl |-> 0]

Entry(v, t, ttl) == [kind |-> "entry", data |-> v, timestamp |-> t, ttl |-> ttl]

\* cache_manager.py:12-14: a constructor parameter (3600 s by default); the
\* instance under test is built with the longest ttl the clock can outlive.
default_ttl == MaxTime

\* cache_manager.py:38, :50   time.time() - entry['timestamp'] < entry['ttl']
IsValid(e, t) == t - e.timestamp < e.ttl

\* cache_manager.py:90, :105  current_time - entry['timestamp'] > entry['ttl']
IsExpiredForCleanup(e, t) == t - e.timestamp > e.ttl

\* A different EffectiveTtl, for comparison: the default replaces None only (ttl is None), so
\* a ttl of 0 is stored as 0.
EffectiveTtl_NoneOnly(ttl) == IF ttl = <<>> THEN default_ttl ELSE ttl[1]

\* cache_manager.py:64   ttl = ttl or self.default_ttl   (None and 0 are falsy)
EffectiveTtl(ttl) == IF ttl = <<>> \/ ttl[1] = 0 THEN default_ttl ELSE ttl[1]

----------------------------------------------------------------------------
(* get: cache_manager.py:32-60.  The three results of one call.            *)

MemHit(mem, k, t) == mem[k].kind = "entry" /\ IsValid(mem[k], t)

\* memory tier after lines 36-41 (an expired entry is deleted)
MemAfterCheck(mem, k, t) ==
    IF mem[k].kind = "entry" /\ ~IsValid(mem[k], t)
    THEN [mem EXCEPT ![k] = Absent]
    ELSE mem

DiskHit(dsk, k, t) == dsk[k].kind = "entry" /\ IsValid(dsk[k], t)

GetRet(mem, dsk, k, t) ==
    IF MemHit(mem, k, t) THEN mem[k].data
    ELSE IF DiskHit(dsk, k, t) THEN dsk[k].data
    ELSE None

\* A promotion that stamps the promoted entry with the time of the read.
GetMem_Restamped(mem, dsk, k, t) ==
    IF MemHit(mem, k, t) THEN mem
    ELSE IF DiskHit(dsk, k, t)
         THEN [MemAfterCheck(mem, k, t) EXCEPT
                  ![k] = Entry(dsk[k].data, t, dsk[k].ttl)]
         ELSE MemAfterCheck(mem, k, t)

GetMem(mem, dsk, k, t) ==
    IF MemHit(mem, k, t) THEN mem
    ELSE IF DiskHit(dsk, k, t)
         THEN [MemAfterCheck(mem, k, t) EXCEPT ![k] = dsk[k]]   \* line 52
         ELSE MemAfterCheck(mem, k, t)

GetDisk(mem, dsk, k, t) ==
    IF MemHit(mem, k, t) THEN dsk
    ELSE IF dsk[k].kind = "entry" /\ ~IsValid(dsk[k], t)
         THEN [dsk EXCEPT ![k] = Absent]                        \* line 56
         ELSE dsk                  \* absent, valid, or load failed (line 57-58)

----------------------------------------------------------------------------
(* set: cache_manager.py:62-81 *)

\* A different SetMem, for comparison: a memory tier capped at one entry, the new entry
\* evicting whatever else is stored.
SetMem_Capped(mem, k, v, ttl, t) ==
    [j \in Keys |-> IF j = k THEN Entry(v, t, EffectiveTtl(ttl)) ELSE Absent]

SetMem(mem, k, v, ttl, t) == [mem EXCEPT ![k] = Entry(v, t, EffectiveTtl(ttl))]

\* open(path,'wb') failing leaves the old file; pickle.dump failing leaves a
\* truncated, unloadable file; both are swallowed by the except clause.
SetDisk(dsk, k, v, ttl, t, w) ==
    CASE w = "ok"         -> [dsk EXCEPT ![k] = Entry(v, t, EffectiveTtl(ttl))]
      [] w = "open_fails" -> dsk
      [] w = "dump_fails" -> [dsk EXCEPT ![k] = Corrupt]

----------------------------------------------------------------------------
(* cleanup: cache_manager.py:83-112 *)

\* A different CleanupMem, for comparison: the sweep stops after the first expired key it
\* deletes.
CleanupMem_StopsAfterOne(mem, t) ==
    LET expired == {k \in Keys : mem[k].kind = "entry"
                                  /\ IsExpiredForCleanup(mem[k], t)}
    IN IF expired = {} THEN mem
       ELSE [mem EXCEPT ![CHOOSE k \in expired : TRUE] = Absent]

CleanupMem(mem, t) ==
    [k \in Keys |->
        IF mem[k].kind = "entry" /\ IsExpiredForCleanup(mem[k], t)
        THEN Absent ELSE mem[k]]

CleanupDisk(dsk, t) ==
    [k \in Keys |->
        CASE dsk[k].kind = "corrupt" -> Absent                  \* line 107-110
          [] dsk[k].kind = "entry" /\ IsExpiredForCleanup(dsk[k], t) -> Absent
          [] OTHER -> dsk[k]]

----------------------------------------------------------------------------
(* Scorer inputs.  A content is described by what the scorer reads of it:  *)
(* words = len(content.split()), chars = len(content.strip()), the number  *)
(* of patterns of each list found in it (lightweight_enhancer.py:56-73),   *)
(* and whether str.encode() accepts it (a str holding a lone surrogate,    *)
(* as json.loads yields for "\ud83d", is not encodable).                   *)

Content(id, words, chars, pump, dump, urgency, emotion, encodable) ==
    [id |-> id, words |-> words, chars |-> chars, pump |-> pump,
     dump |-> dump, urgency |-> urgency, emotion |-> emotion,
     encodable |-> encodable]

Contents ==
    { Content("hi", 1, 2, 0, 0, 0, 0, TRUE),
      \* "hi"
      Content("rocket_now_scam", 1, 8, 1, 1, 1, 0, TRUE),
      \* the rocket emoji followed by "nowscam"
      Content("rates", 13, 71, 0, 0, 0, 0, TRUE),
      \* "Rates were left unchanged by the central bank at its meeting on Tuesday"
      Content("moon", 6, 34, 2, 0, 0, 0, TRUE),
      \* "BTC TO THE MOON!!! guaranteed 100x"
      Content("hype", 12, 56, 3, 2, 1, 2, TRUE),
      \* "hodl to the moon, scam or ponzi? act now, fomo and greed"
      Content("mixed", 13, 61, 1, 1, 1, 0, TRUE),
      \* "hodl or scam now" and nine more words
      Content("edge", 50, 172, 6, 5, 0, 4, TRUE),
      \* fifty words with six pump, five dump and four emotion patterns
      Content("surrogate", 9, 49, 0, 0, 1, 0, FALSE) }
      \* "\ud83d breaking: rates were left unchanged by the bank"

\* A url is described by how fast_domain_analysis classifies it; "" is the
\* empty string and "unparseable" one that urlparse rejects ("http://[bad").
Urls == {"", "high", "medium", "low", "unknown", "unparseable"}

\* What the external AI call does (lightweight_enhancer.py:200-212):
\*   timeout, exception  the client raises
\*   json         the reply is a JSON object with numeric scores
\*   text         the reply is not JSON
\*   json_nondict the reply is JSON but no object (a list, a number)
\*   json_wrongtype  a JSON object whose scores are not numbers
\*   no_content   message.content is None
AiBehaviours == {"timeout", "exception", "json", "text", "json_nondict",
                 "json_wrongtype", "no_content"}

Max(a, b) == IF a >= b THEN a ELSE b
Min(a, b) == IF a <= b THEN a ELSE b

\* lightweight_enhancer.py:92-120 fast_pattern_analysis.  Each norm is
\* min(1.0, score / max(1, content_length * f)) with f = 0.1, or 0.05 for
\* urgency; it is kept as the exact fraction NormNum / NormDen.
NormDen(c, f10) == Max(10 * f10, c.words)          \* f10 = 1/f / 10 : 1 or 2
NormNum(c, score, f10) == Min(NormDen(c, f10), 10 * f10 * score)

\* overall_manipulation_risk = (pump + dump + urgency + emotion norms) / 4,
\* as the fraction RiskNum / RiskDen
RiskNum(c) ==
    (NormNum(c, c.pump, 1) + NormNum(c, c.dump, 1) + NormNum(c, c.emotion, 1))
        * NormDen(c, 2)
    + NormNum(c, c.urgency, 2) * NormDen(c, 1)
RiskDen(c) == 4 * NormDen(c, 1) * NormDen(c, 2)

\* lightweight_enhancer.py:122-139 fast_domain_analysis: domain_score
domain_score(u) ==
    CASE u = "high" -> 85
      [] u = "medium" -> 65
      [] u = "low" -> 25
      [] OTHER -> 50            \* unknown domain (line 139), urlparse failed (129)

\* batch_processor.py:100  domain_result = fast_domain_analysis(url) if url
\* else {}, read at line 104 as domain_result.get('domain_score', 50)
DomainScoreOrDefault(u) == IF u = "" THEN 50 ELSE domain_score(u)

\* A different short_circuit, for comparison: the risk threshold is inclusive (>= 0.7).
short_circuit_inclusive(c, u) ==
    \/ 10 * RiskNum(c) >= 7 * RiskDen(c)
    \/ DomainScoreOrDefault(u) < 30

\* batch_processor.py:103-104
\*   overall_manipulation_risk > 0.7 or domain_score < 30
short_circuit(c, u) ==
    \/ 10 * RiskNum(c) > 7 * RiskDen(c)
    \/ DomainScoreOrDefault(u) < 30

\* lightweight_enhancer.py:37-39, :182  _get_cache_key(f"{content}:{url}",
\* "content"): the md5 of the encoded text; one key per (content, url).
CacheKey(c, u) == <<c.id, u>>

\* lightweight_enhancer.py:41-43, :183
CachedFor(cch, c, u, t) ==
    {e \in cch : e.key = CacheKey(c, u) /\ t - e.timestamp < e.ttl}

\* lightweight_enhancer.py:45-52, :229  _cache_result(key, result, ttl=1800);
\* the clock of SpecScorer counts in units of 1800 s.
CacheResult(cch, c, u, result, scores, t) ==
    {e \in cch : e.key # CacheKey(c, u)}
        \cup {[key |-> CacheKey(c, u), result |-> result, scores |-> scores,
               timestamp |-> t, ttl |-> 1]}

----------------------------------------------------------------------------
(* Fusion: lightweight_enhancer.py:238-268 _combine_results.  Scores are   *)
(* kept exact: a credibility or manipulation score is the fraction n / den *)
(* of a record, a confidence is counted in hundredths.  round(x, k) is     *)
(* taken on the exact value, ties going to the even neighbour.             *)

\* The numbers an AI reply may carry for credibility_score and
\* manipulation_risk (declared range 0..100) and, in hundredths, for
\* confidence (declared range 0.0..1.0).  A key the reply leaves out reads
\* as 50, 50 and 0.5 (lines 242, 243, 255).
AiScores == {-20, 0, 50, 100, 150}
AiConfidences == {-50, 0, 50, 100, 300}

AiResults ==
    [credibility_score : AiScores, manipulation_risk : AiScores,
     confidence : AiConfidences]

\* round(n / d) for d > 0, half to even
RoundHalfEven(n, d) ==
    LET q == n \div d
        r == n % d
    IN IF 2 * r < d THEN q
       ELSE IF 2 * r > d THEN q + 1
       ELSE IF q % 2 = 0 THEN q ELSE q + 1

\* A different final_credibility, for comparison: the AI score is clamped
\* before the adjustments are applied instead of after.
final_credibility_clamped_first(ai, rn, rd, ds) ==
    LET D == 5 * rd
        num == Max(0, Min(100, ai.credibility_score)) * D
                  + (ds - 50) * 3 * rd - 150 * rn
    IN RoundHalfEven(10 * num, D)

\* lines 242-250, 258: round(max(0, min(100, ai_cred + domain_adjustment
\* - pattern_adjustment)), 1), in tenths; the pattern risk is rn / rd,
\* pattern_adjustment = risk * 30, domain_adjustment = (ds - 50) * 0.6
final_credibility(ai, rn, rd, ds) ==
    LET D == 5 * rd
        num == ai.credibility_score * D + (ds - 50) * 3 * rd - 150 * rn
    IN RoundHalfEven(10 * Max(0, Min(100 * D, num)), D)

\* lines 243-251, 259: round(max(0, min(100, ai_manip + pattern_adjustment)),
\* 1), in tenths
final_manipulation(ai, rn, rd) ==
    LET num == ai.manipulation_risk * rd + 30 * rn
    IN RoundHalfEven(10 * Max(0, Min(100 * rd, num)), rd)

\* A different final_confidence, for comparison: only the floor of 0.1 is
\* applied.
final_confidence_floor_only(ai, rn, rd) ==
    LET D == 200 * rd
        diff == ai.manipulation_risk * rd - 100 * rn
        num == (D - (IF diff >= 0 THEN diff ELSE -diff)) * ai.confidence
    IN RoundHalfEven(Max(10 * D, num), D)

\* lines 254-255, 260: consistency = 1.0 - abs(ai_manip/100 - risk) * 0.5;
\* round(min(0.95, max(0.1, consistency * confidence)), 2), in hundredths
final_confidence(ai, rn, rd) ==
    LET D == 200 * rd
        diff == ai.manipulation_risk * rd - 100 * rn
        num == (D - (IF diff >= 0 THEN diff ELSE -diff)) * ai.confidence
    IN RoundHalfEven(Min(95 * D, Max(10 * D, num)), D)

\* ds is domain_result.get('domain_score', 50)
_combine_results(ai, rn, rd, ds) ==
    [credibility_score |-> final_credibility(ai, rn, rd, ds),
     manipulation_risk |-> final_manipulation(ai, rn, rd),
     den |-> 10,
     confidence |-> final_confidence(ai, rn, rd)]

NoScores == [credibility_score |-> 0, manipulation_risk |-> 0, den |-> 1,
             confidence |-> 0]

\* One call of _combine_results: the AI result, the pattern risk rn / rd,
\* the url whose domain_result is passed, and what the call returned.
FusionCalls ==
    [ai : AiResults, rn : 0 .. RiskSteps, rd : {RiskSteps}, url : Urls,
     called : {FALSE}, out : {NoScores}]

NoFusion ==
    [ai |-> [credibility_score |-> 50, manipulation_risk |-> 50,
             confidence |-> 50],
     rn |-> 0, rd |-> 1, url |-> "", called |-> FALSE, out |-> NoScores]

\* lightweight_enhancer.py:293-314 _fallback_parse: the numbers read out of
\* a reply that is not JSON.  The regular expressions accept digits only, so
\* a negative number is not found and the default (50, 50, 0.5) stands; the
\* confidence is min(1.0, .), and of a number >= 1 the integer part is read.
_fallback_parse(reply) ==
    [credibility_score |-> IF reply.credibility_score >= 0
                           THEN reply.credibility_score ELSE 50,
     manipulation_risk |-> IF reply.manipulation_risk >= 0
                           THEN reply.manipulation_risk ELSE 50,
     confidence |-> IF reply.confidence < 0 THEN 50
                    ELSE Min(100, reply.confidence)]

\* A different _fast_fallback_analysis, for comparison: the two scores are
\* not clamped.
_fast_fallback_analysis_unclamped(c, u) ==
    [credibility_score |-> DomainScoreOrDefault(u) * RiskDen(c) - 40 * RiskNum(c),
     manipulation_risk |-> 80 * RiskNum(c) + 10 * RiskDen(c),
     den |-> RiskDen(c),
     confidence |-> 40]

\* lightweight_enhancer.py:270-291 _fast_fallback_analysis: the scores, as
\* fractions over RiskDen(c):
\*   credibility = domain_score - overall_manipulation_risk * 40
\*   manipulation = overall_manipulation_risk * 80 + 10
\* each clamped to [10, 90]; confidence 0.4
_fast_fallback_analysis(c, u) ==
    [credibility_score |->
        Max(10 * RiskDen(c),
            Min(90 * RiskDen(c),
                DomainScoreOrDefault(u) * RiskDen(c) - 40 * RiskNum(c))),
     manipulation_risk |->
        Max(10 * RiskDen(c),
            Min(90 * RiskDen(c), 80 * RiskNum(c) + 10 * RiskDen(c))),
     den |-> RiskDen(c),
     confidence |-> 40]

\* lightweight_enhancer.py:188-193: the fixed result for short content
TooShortScores == [credibility_score |-> 40, manipulation_risk |-> 20,
                   den |-> 1, confidence |-> 30]

\* The numbers of the replies tried on the scorer: one inside the declared
\* ranges and one outside them.
ScorerReplies ==
    { [credibility_score |-> 50, manipulation_risk |-> 50, confidence |-> 50],
      [credibility_score |-> 150, manipulation_risk |-> -20, confidence |-> 300] }

\* Results, by the code path that builds them.
TooShort == [kind |-> "too_short", fallback_mode |-> FALSE]   \* :188-193
Fused == [kind |-> "fused", fallback_mode |-> FALSE]          \* :257-268
Fallback == [kind |-> "fallback", fallback_mode |-> TRUE]     \* :280-291
NoResult == [kind |-> "none", fallback_mode |-> FALSE]

\* Whether lines 200-226 complete without raising for this AI behaviour:
\* a JSON object is combined; a non-JSON reply goes through _fallback_parse
\* and is combined; everything else raises inside the try block.
AiUsable(ai) == ai \in {"json", "text"}

\* lightweight_enhancer.py:178-236 analyze_content_enhanced: what the call
\* raises, returns, whether it made the AI call, whether the result came
\* from self.cache, and self.cache afterwards.
analyze_content_enhanced(c, u, ai, reply, cch, t) ==
    IF ~c.encodable
    THEN [raised |-> "UnicodeEncodeError", result |-> NoResult,             \* :182
          scores |-> NoScores,
          ai_called |-> FALSE, from_cache |-> FALSE, cache |-> cch]
    ELSE IF CachedFor(cch, c, u, t) # {}
    THEN LET e == CHOOSE e \in CachedFor(cch, c, u, t) : TRUE IN
         [raised |-> "", result |-> e.result, scores |-> e.scores,
          ai_called |-> FALSE, from_cache |-> TRUE, cache |-> cch]          \* :183-184
    ELSE IF c.chars < 10
    THEN [raised |-> "", result |-> TooShort, scores |-> TooShortScores,    \* :187-193
          ai_called |-> FALSE, from_cache |-> FALSE, cache |-> cch]
    ELSE IF AiUsable(ai)
    THEN LET parsed == IF ai = "json" THEN reply                            \* :216
                       ELSE _fallback_parse(reply)                          \* :219
             final == _combine_results(parsed, RiskNum(c), RiskDen(c),
                                       DomainScoreOrDefault(u))             \* :222-226
         IN [raised |-> "", result |-> Fused, scores |-> final,
             ai_called |-> TRUE, from_cache |-> FALSE,
             cache |-> CacheResult(cch, c, u, Fused, final, t)]             \* :229
    ELSE [raised |-> "", result |-> Fallback,                               \* :233-236
          scores |-> _fast_fallback_analysis(c, u),
          ai_called |-> TRUE, from_cache |-> FALSE, cache |-> cch]

\* batch_processor.py:95-121 _analyze_single_item
_analyze_single_item(c, u, ai, reply, cch, t) ==
    IF short_circuit(c, u)
    THEN [raised |-> "", result |-> Fallback,                               \* :103-105
          scores |-> _fast_fallback_analysis(c, u),
          ai_called |-> FALSE, from_cache |-> FALSE, cache |-> cch]
    ELSE LET r == analyze_content_enhanced(c, u, ai, reply, cch, t) IN
         IF r.raised # ""
         THEN [r EXCEPT !.raised = "", !.result = Fallback,                 \* :119-121
                        !.scores = _fast_fallback_analysis(c, u)]
         ELSE r

NoScore == [fn |-> "init", ai |-> "json", raised |-> "", result |-> NoResult,
            scores |-> NoScores, ai_called |-> FALSE, from_cache |-> FALSE]

Requests == [content : Contents, url : Urls]

----------------------------------------------------------------------------
(* Risk scorer: scoring/risk.py.  A sample window is the list stored under *)
(* 'price24h' or 'volume24h', or the key is missing from the market dict.  *)

Window(samples) == [present |-> TRUE, samples |-> samples]
NoWindow == [present |-> FALSE, samples |-> <<>>]

\* Price windows: key missing, empty, one sample, constant, a rising week,
\* and seventeen equal samples followed by an outlier (|z| = sqrt(17)).
PriceWindows ==
    { NoWindow, Window(<<>>), Window(<<5>>), Window(<<7, 7, 7>>),
      Window(<<42, 43, 45, 46, 46, 47, 48>>),
      Window(<<0, 0, 0, 0, 0, 0, 0, 0, 0, 0, 0, 0, 0, 0, 0, 0, 0, 1>>) }

\* Volume windows, the last sample below and not below 800.
VolumeWindows ==
    { NoWindow, Window(<<>>), Window(<<500>>), Window(<<850, 800, 750>>),
      Window(<<800, 900>>), Window(<<900, 900, 900>>) }

Markets == [price24h : PriceWindows, volume24h : VolumeWindows]

LinkQualityVariances == {-200, 0, 20, 45, 100, 1000}

\* What the sentiment call does: "ok" is a JSON reply carrying
\* sentiment_score and manipulation_risk (in tenths, in or out of range) and
\* coordinated_activity; "fails" is a call that raises or has no API key.
SentimentReplies ==
    [kind : {"ok"}, sentiment_score : {-20, -3, 0, 20},
     manipulation_risk : {-20, 5, 30}, coordinated_activity : BOOLEAN]
    \cup {[kind |-> "fails", sentiment_score |-> 0, manipulation_risk |-> 0,
           coordinated_activity |-> FALSE]}

RECURSIVE Sum(_)
Sum(w) == IF w = <<>> THEN 0 ELSE w[1] + Sum(Tail(w))

\* risk.py:4-9 zscores, last element.  With n samples of sum S the deviation
\* of sample i from the mean is Dev(w, i) / n, and the square of the last
\* z-score is the fraction ZNum / ZDen; an empty window and one with
\* standard deviation 0 give 0 (lines 9, 17, 18).
Dev(w, i) == Len(w) * w[i] - Sum(w)

RECURSIVE SumSqDev(_, _)
SumSqDev(w, i) ==
    IF i = 0 THEN 0 ELSE Dev(w, i) * Dev(w, i) + SumSqDev(w, i - 1)

ZNum(wd) ==
    LET w == wd.samples IN
    IF Len(w) = 0 \/ SumSqDev(w, Len(w)) = 0 THEN 0
    ELSE Dev(w, Len(w)) * Dev(w, Len(w)) * Len(w)

ZDen(wd) ==
    LET w == wd.samples IN
    IF Len(w) = 0 \/ SumSqDev(w, Len(w)) = 0 THEN 1
    ELSE SumSqDev(w, Len(w))

\* round(10 * sqrt(p / q)): the r with (r - 1/2)^2 <= 100 p / q < (r + 1/2)^2
Round10Sqrt(p, q, most) ==
    CHOOSE r \in 0 .. most :
        /\ r = 0 \/ (2 * r - 1) * (2 * r - 1) * q <= 400 * p
        /\ 400 * p < (2 * r + 1) * (2 * r + 1) * q

\* risk.py:15-19  min(100, round(60 + 10 * max(last_p, last_v)))
onchain_anomaly(market) ==
    LET p == market.price24h
        v == market.volume24h
        most == 10 * (Len(p.samples) + Len(v.samples))
        r == IF ZNum(p) * ZDen(v) >= ZNum(v) * ZDen(p)
             THEN Round10Sqrt(ZNum(p), ZDen(p), most)
             ELSE Round10Sqrt(ZNum(v), ZDen(v), most)
    IN Min(100, 60 + r)

\* risk.py:22
order_flow_imbalance == 40

\* openai_nlp.py:110-182 analyze_market_sentiment: the reply clamped to
\* [-1, 1] and [0, 1], or the defaults when the call fails (in tenths)
analyze_market_sentiment(reply) ==
    IF reply.kind = "ok"
    THEN [sentiment_score |-> Max(-10, Min(10, reply.sentiment_score)),
          manipulation_risk |-> Max(0, Min(10, reply.manipulation_risk)),
          coordinated_activity |-> reply.coordinated_activity]
    ELSE [sentiment_score |-> 0, manipulation_risk |-> 5,
          coordinated_activity |-> FALSE]

\* risk.py:25-55: 30 without comments, else
\* min(100, round(0.5 * manipulation_risk * 100 + 0.3 * abs(sentiment_score)
\*                * 50 + 0.2 * coordination_penalty))
sentiment_volatility(comments, reply) ==
    IF ~comments THEN 30
    ELSE LET a == analyze_market_sentiment(reply)
             ext == IF a.sentiment_score >= 0 THEN a.sentiment_score
                    ELSE -a.sentiment_score
             pen == IF a.coordinated_activity THEN 30 ELSE 0
         IN Min(100, RoundHalfEven(50 * a.manipulation_risk + 15 * ext + 2 * pen, 10))

\* risk.py:58  10 if market.get('volume24h', [0])[-1] < 800 else 0; the
\* index raises IndexError on a window that is present and empty.
IlliquidityRaises(market) ==
    market.volume24h.present /\ market.volume24h.samples = <<>>

illiquidity_penalty(market) ==
    LET w == market.volume24h.samples IN
    IF ~market.volume24h.present THEN 10
    ELSE IF w[Len(w)] < 800 THEN 10 ELSE 0

\* risk.py:11-92 risk_score: what it raises, or the risk it returns
risk_score(market, link_quality_variance, comments, reply) ==
    IF IlliquidityRaises(market)
    THEN [raised |-> "IndexError", risk |-> 0]
    ELSE [raised |-> "",
          risk |-> Min(100, Max(0,
                     RoundHalfEven(3 * onchain_anomaly(market)
                                     + 2 * order_flow_imbalance
                                     + 3 * sentiment_volatility(comments, reply)
                                     + link_quality_variance
                                     + illiquidity_penalty(market), 10)))]

RiskCalls ==
    [market : Markets, link_quality_variance : LinkQualityVariances,
     comments : BOOLEAN, reply : SentimentReplies,
     called : {FALSE}, raised : {""}, risk : {0}]

NoRiskCall ==
    [market |-> [price24h |-> NoWindow, volume24h |-> NoWindow],
     link_quality_variance |-> 20, comments |-> FALSE,
     reply |-> [kind |-> "fails", sentiment_score |-> 0,
                manipulation_risk |-> 0, coordinated_activity |-> FALSE],
     called |-> FALSE, raised |-> "", risk |-> 0]

----------------------------------------------------------------------------
(* Batch scheduler: batch_processor.py.  The calls of a run are made       *)
(* within the ttl of the caches they fill (1800 s, one unit of the clock). *)
(* A result is a Python dict;                                              *)
(* the dict that analyze_content_enhanced stores in lightweight_ai.cache   *)
(* is the very object it returns, then and on every later cache hit, so    *)
(* two results can be one object.  An object is named by the task that     *)
(* created it (by) and its cache key; by = 0 names the object that was in  *)
(* the cache before the call.                                              *)

\* batch_processor.py:186  OptimizedBatchProcessor(max_workers=2, ...)
max_workers == 2

\* batch_processor.py:186  OptimizedBatchProcessor(max_workers=2, batch_size=5)
GlobalBatchSize == 5

ContentById(id) == CHOOSE c \in Contents : c.id = id

\* The (content, url) pairs the scheduler is given: one that takes the AI
\* path and is cached, one that the short-circuit answers.
BatchItems ==
    { [content |-> ContentById("rates"), url |-> "medium"],
      [content |-> ContentById("moon"), url |-> "low"] }

\* batch_processor.py:11-16; priority 1 = high, 2 = medium, 3 = low
BatchAnalysisRequest(content, url, market_id, priority) ==
    [content |-> content, url |-> url, market_id |-> market_id,
     priority |-> priority]

\* The requests tried: two high-priority requests for the same content
\* from different markets, a third for other content, and one of medium
\* priority.
BatchRequests ==
    { BatchAnalysisRequest(ContentById("rates"), "medium", "m1", 1),
      BatchAnalysisRequest(ContentById("rates"), "medium", "m2", 1),
      BatchAnalysisRequest(ContentById("moon"), "low", "m2", 1),
      BatchAnalysisRequest(ContentById("moon"), "low", "m1", 2) }

\* The lists given to process_high_priority: every list of one request,
\* and the lists of two whose first request is high-priority for the cached
\* content.
RequestLists ==
    {<<>>} \cup {<<a>> : a \in BatchRequests}
           \cup {<<BatchAnalysisRequest(ContentById("rates"), "medium", "m1", 1), b>> :
                    b \in BatchRequests}

\* A different BatchIsFull, for comparison: the batch runs once the queue
\* is longer than batch_size.
BatchIsFull_Above(q, size) == Len(q) > size

\* batch_processor.py:33  len(self.processing_queue) >= self.batch_size
BatchIsFull(q, size) == Len(q) >= size

\* A different SortByPriority, for comparison: ascending priority, the
\* latest arrival first among equal priorities.
NewestFirst(q) == [i \in 1 .. Len(q) |-> q[Len(q) + 1 - i]]

SortByPriority_NewestFirst(q) ==
    NewestFirst(SelectSeq(q, LAMBDA r : r.priority = 1))
        \o NewestFirst(SelectSeq(q, LAMBDA r : r.priority = 2))
        \o NewestFirst(SelectSeq(q, LAMBDA r : r.priority = 3))

\* batch_processor.py:44  self.processing_queue.sort(key=lambda x: x.priority)
\* (list.sort is stable)
SortByPriority(q) ==
    SelectSeq(q, LAMBDA r : r.priority = 1)
        \o SelectSeq(q, LAMBDA r : r.priority = 2)
        \o SelectSeq(q, LAMBDA r : r.priority = 3)

\* A different Batches, for comparison: only the full slices are taken.
Batches_FullOnly(q, size) ==
    [i \in 1 .. (Len(q) \div size) |-> SubSeq(q, (i - 1) * size + 1, i * size)]

\* batch_processor.py:47-50  queue[i:i + batch_size] for i in range(0, len,
\* batch_size)
Batches(q, size) ==
    [i \in 1 .. ((Len(q) + size - 1) \div size) |->
        SubSeq(q, (i - 1) * size + 1, Min(i * size, Len(q)))]

RECURSIVE Concat(_, _)
Concat(batches, order) ==
    IF order = <<>> THEN <<>>
    ELSE batches[Head(order)] \o Concat(batches, Tail(order))

\* The orders in which as_completed can yield n futures (line 62).
CompletionOrders(n) ==
    {o \in [1 .. n -> 1 .. n] : \A i, j \in 1 .. n : o[i] = o[j] => i = j}

\* The AI behaviours and the reply tried on the scheduler.
BatchAi == {"json", "timeout"}
BatchReply == [credibility_score |-> 50, manipulation_risk |-> 50, confidence |-> 50]

\* cache_manager.py:27-30 _get_cache_key('_analyze_single_item', content,
\* url): one key per (content, url); the two pairs of BatchItems take the
\* two keys of Keys.
AiCacheKey(c, u) == IF c.id = "rates" THEN "k1" ELSE "k2"

\* cache_manager.py:151-163 batch_cache_analysis, first loop: ai_cache.get
\* for each item of the batch from item i on.  acc.hit tells per item
\* whether a (truthy) result came back.
RECURSIVE CheckCache(_, _, _, _)
CheckCache(batch, i, acc, t) ==
    IF i > Len(batch) THEN acc
    ELSE LET k == AiCacheKey(batch[i].content, batch[i].url) IN
         CheckCache(batch, i + 1,
                    [mem |-> GetMem(acc.mem, acc.dsk, k, t),
                     dsk |-> GetDisk(acc.mem, acc.dsk, k, t),
                     hit |-> Append(acc.hit, GetRet(acc.mem, acc.dsk, k, t) # None)],
                    t)

\* cache_manager.py:166-177 batch_cache_analysis, second loop: each item
\* that was not cached is analysed and stored with ttl = 1800 (the cached
\* data is told by the kind of the result).  ais and ws give per item the
\* behaviour of the AI call and of the disk write.
RECURSIVE AnalyzeUncached(_, _, _, _, _, _, _)
AnalyzeUncached(batch, i, hit, ais, ws, acc, t) ==
    IF i > Len(batch) THEN acc
    ELSE IF hit[i] THEN AnalyzeUncached(batch, i + 1, hit, ais, ws, acc, t)
    ELSE LET k == AiCacheKey(batch[i].content, batch[i].url)
             r == _analyze_single_item(batch[i].content, batch[i].url, ais[i],
                                       BatchReply, acc.cache, t)
         IN AnalyzeUncached(batch, i + 1, hit, ais, ws,
                [mem |-> SetMem(acc.mem, k, r.result.kind, <<1>>, t),
                 dsk |-> SetDisk(acc.dsk, k, r.result.kind, <<1>>, t, ws[i]),
                 cache |-> r.cache],
                t)

\* batch_processor.py:71-93 _process_single_batch: the caches afterwards
_process_single_batch(batch, ais, ws, acc, t) ==
    LET checked == CheckCache(batch, 1, [mem |-> acc.mem, dsk |-> acc.dsk,
                                          hit |-> <<>>], t)
    IN AnalyzeUncached(batch, 1, checked.hit, ais, ws,
                       [mem |-> checked.mem, dsk |-> checked.dsk,
                        cache |-> acc.cache], t)

\* lines 57-59: the sub-batches from j on, each run to its end before the
\* next starts (with a single caller there is one sub-batch at most)
RECURSIVE RunBatches(_, _, _, _, _, _)
RunBatches(batches, j, ais, ws, acc, t) ==
    IF j > Len(batches) THEN acc
    ELSE RunBatches(batches, j + 1, ais, ws,
                    _process_single_batch(batches[j], ais[j], ws[j], acc, t), t)

\* batch_processor.py:38-69 process_batch: the sub-batches dispatched, the
\* requests whose results the returned list holds, in its order, and the
\* caches afterwards
process_batch(q, size, order, ais, ws, mem, dsk, cch, t) ==
    IF q = <<>>
    THEN [batches |-> <<>>, answered |-> <<>>,                             \* :40-41
          after |-> [mem |-> mem, dsk |-> dsk, cache |-> cch]]
    ELSE LET batches == Batches(SortByPriority(q), size) IN
         [batches |-> batches,
          answered |-> Concat(batches, order),
          after |-> RunBatches(batches, 1, ais, ws,
                               [mem |-> mem, dsk |-> dsk, cache |-> cch], t)]

\* The outcomes of the disk write tried on the scheduler.
BatchWrites == {"ok"}

\* How process_batch can go for a queue: the order in which the sub-batches
\* complete, the AI service being up or down, and per sub-batch and item
\* the disk write.
BatchRuns(q, size) ==
    LET n == Len(Batches(q, size)) IN
    [order : CompletionOrders(n),
     ais : [1 .. n -> {[i \in 1 .. Min(size, Len(q)) |-> ai] : ai \in BatchAi}],
     ws : [1 .. n -> [1 .. Min(size, Len(q)) -> BatchWrites]]]

\* How the scoring of one fast-track request ends for the collecting loop
\* (line 146): the result arrives in time, future.result times out after
\* 5 s while the task runs on, or the task raises.
Outcomes == {"done", "timeout", "raises"}

Obj(i, key) == [by |-> i, key |-> key]

\* A different OnFailure, for comparison: a request whose scoring fails gets
\* no result.
OnFailure_Skip(results, fallback) == results

\* lines 151-159: the fallback result is appended in place of the failed one
OnFailure(results, fallback) == Append(results, fallback)

\* lines 147-149, 155-158: the loop writes market_id, priority and fast_track
\* into each object in turn, so an object keeps what was written last.
LastWriter(got, i) ==
    CHOOSE j \in i .. Len(got) :
        /\ got[j].obj = got[i].obj
        /\ \A k \in (j + 1) .. Len(got) : got[k].obj # got[i].obj

\* lines 143-161: the list returned, for the objects got collected for the
\* high-priority requests hp
Collected(hp, got) ==
    [i \in 1 .. Len(got) |->
        [market_id |-> hp[LastWriter(got, i)].market_id,
         priority |-> hp[LastWriter(got, i)].priority,
         fast_track |-> TRUE,
         fallback_used |-> got[i].fallback_used,
         fallback_mode |-> got[i].fallback_mode]]

\* The task of the i-th high-priority request rq and its collection.  r is
\* what _analyze_single_item does on the cache the task reads and held the
\* object held in that cache for the key of rq; acc.cache is
\* lightweight_ai.cache, acc.holder the object held in it per key, acc.got
\* per request the object handed to the collecting loop and whether it is
\* the loop's own fallback.  A task that times out runs on to its end.
Task(rq, i, outcome, r, held, acc, t) ==
    IF outcome = "raises"
    THEN [acc EXCEPT !.got = OnFailure(@, [obj |-> Obj(-i, CacheKey(rq.content, rq.url)),
                                            fallback_used |-> TRUE,         \* :154
                                            fallback_mode |-> Fallback.fallback_mode])]
    ELSE [cache |-> IF r.result = Fused /\ ~r.from_cache
                    THEN CacheResult(acc.cache, rq.content, rq.url, Fused,
                                     r.scores, t)
                    ELSE acc.cache,
          holder |-> IF r.result = Fused /\ ~r.from_cache
                     THEN [acc.holder EXCEPT ![CacheKey(rq.content, rq.url)] =
                               Obj(i, CacheKey(rq.content, rq.url))]
                     ELSE acc.holder,
          got |-> IF outcome = "done"
                  THEN Append(acc.got,
                              [obj |-> IF r.from_cache THEN held
                                       ELSE Obj(i, CacheKey(rq.content, rq.url)),
                               fallback_used |-> FALSE,
                               fallback_mode |-> r.result.fallback_mode])
                  ELSE OnFailure(acc.got,
                                 [obj |-> Obj(-i, CacheKey(rq.content, rq.url)),
                                  fallback_used |-> TRUE,                   \* :154
                                  fallback_mode |-> Fallback.fallback_mode])]

\* What a task sees of the cache: how.overlap tells whether the tasks all
\* read lightweight_ai.cache before any of them writes it, or run one after
\* the other in list order.
View(how, start, acc) == IF how.overlap THEN start ELSE acc

\* The tasks of the high-priority requests hp from task i on (lines 135-141
\* and the executor's threads), then the list returned and
\* lightweight_ai.cache afterwards.
RECURSIVE RunTasks(_, _, _, _, _, _)
RunTasks(hp, i, how, start, acc, t) ==
    IF i > Len(hp)
    THEN [results |-> Collected(hp, acc.got), cache |-> acc.cache]
    ELSE RunTasks(hp, i + 1, how, start,
                  Task(hp[i], i, how.outcomes[i],
                       _analyze_single_item(hp[i].content, hp[i].url, how.ais[i],
                                            BatchReply,
                                            View(how, start, acc).cache, t),
                       View(how, start, acc).holder[CacheKey(hp[i].content,
                                                             hp[i].url)],
                       acc, t),
                  t)

\* The caches and the objects collected when a fast-track call starts.
Submitted(cch) ==
    [cache |-> cch,
     holder |-> [k \in {CacheKey(i.content, i.url) : i \in BatchItems} |-> Obj(0, k)],
     got |-> <<>>]

\* batch_processor.py:123-161 process_high_priority: the list returned and
\* lightweight_ai.cache afterwards
process_high_priority(reqs, how, cch, t) ==
    RunTasks(SelectSeq(reqs, LAMBDA r : r.priority = 1), 1, how,            \* :127
             Submitted(cch), Submitted(cch), t)

\* How a fast-track call can go for a list of requests: the AI service is
\* up or down during the call.
FastTrackRuns(high_priority) ==
    [outcomes : [1 .. Len(high_priority) -> Outcomes],
     ais : {[i \in 1 .. Len(high_priority) |-> ai] : ai \in BatchAi},
     overlap : IF Len(high_priority) > 1 THEN BOOLEAN ELSE {FALSE}]

\* The scheduler call that has just ended: its arguments, what it raised,
\* whether it returned None, the list it returned otherwise (for a call that runs
\* process_batch, the requests answered), and for a fast-track call how the
\* scoring of each high-priority request ended.
NoBatchCall == [op |-> "init", args |-> <<>>, none |-> FALSE, ret |-> <<>>,
                outcomes |-> <<>>, raised |-> ""]

----------------------------------------------------------------------------
(* Sequential cache: one call at a time *)

\* op/key/ret: the call that has just returned and what it returned;
\* seq: "after_set" for a get that directly follows a set on its key,
\* "again" for a cleanup that directly follows a cleanup, "" otherwise.
NoCall == [op |-> "init", key |-> "k1", ret |-> None, seq |-> ""]

Call(op, k, ret) ==
    [op |-> op, key |-> k, ret |-> ret,
     seq |-> CASE op = "get" /\ last.op = "set" /\ last.key = k -> "after_set"
               [] op = "cleanup" /\ last.op = "cleanup" -> "again"
               [] OTHER -> ""]

NoSet == [done |-> FALSE, data |-> None, ttl |-> <<>>, at |-> 0]

\* A worker thread outside any cache call.  pc names the source line the
\* thread executes next; key, v, ttl are the arguments of its call; entry, t0, used, todo are the locals
\* entry, current_time, the dict size its iteration started with, and
\* expired_keys; n counts its calls; linear observes a get or a set: whether
\* no (other) set on its key has been in progress at any moment of it.
Idle == [pc |-> "idle", key |-> "k1", v |-> None, ttl |-> <<>>,
         entry |-> Absent, t0 |-> 0, used |-> 0, todo |-> {}, n |-> 0,
         linear |-> FALSE]

\* The thread call that has just ended: what it returned or raised, and for
\* a get that ran with no set on its key in progress, whether a completed
\* set on the key was unexpired when it returned (owed) and that set's
\* payload.
NoneDone == [op |-> "init", ret |-> None, raised |-> "",
             owed |-> FALSE, payload |-> None]

Start ==
    /\ now = 0
    /\ memory_cache = [k \in Keys |-> Absent]
    /\ disk = [k \in Keys |-> Absent]
    /\ last = NoCall
    /\ lastSet = [k \in Keys |-> NoSet]
    /\ nsets = 0
    /\ threads = [t \in Threads |-> Idle]
    /\ done = NoneDone
    /\ cache = {}
    /\ sc = NoScore
    /\ processing_queue = <<>>
    /\ dispatch = <<>>
    /\ executor = "running"
    /\ batchCall = NoBatchCall

\* performance_monitor.py:37  self.max_history = 100
max_history == 100

\* A float that is the quotient of two integers, kept exact: num / den.
Ratio(num, den) == [num |-> num, den |-> den]
Zero == Ratio(0, 1)
Less(a, b) == a.num * b.den < b.num * a.den
Same(a, b) == a.num * b.den = b.num * a.den
Whole(n) == Ratio(n, 1)

\* performance_monitor.py:16-28 PerformanceMetrics(): the defaults
PerformanceMetrics ==
    [total_requests |-> 0, cache_hits |-> 0, cache_misses |-> 0,
     avg_response_time |-> Zero, ai_calls_made |-> 0, fallback_used |-> 0,
     error_count |-> 0, cpu_usage |-> 0, memory_usage |-> 0,
     timestamp |-> "None"]

\* The arguments of one record_request call (performance_monitor.py:45-47);
\* the response time is in whole seconds.
Sample(response_time, cache_hit, ai_used, fallback_used, error_occurred) ==
    [response_time |-> response_time, cache_hit |-> cache_hit,
     ai_used |-> ai_used, fallback_used |-> fallback_used,
     error_occurred |-> error_occurred]

\* The requests tried: one answered from the cache, one scored by the AI,
\* a slow one that fell back, and one that failed.
Samples ==
    { Sample(0, TRUE, FALSE, FALSE, FALSE),
      Sample(2, FALSE, TRUE, FALSE, FALSE),
      Sample(6, FALSE, TRUE, TRUE, FALSE),
      Sample(4, FALSE, FALSE, FALSE, TRUE) }

\* The traffic of a run: the first `switch` requests recorded after the
\* start or after a reset are like `first`, the following ones like `later`.
Switches == {1, 10}
Workloads == [first : Samples, switch : Switches, later : Samples]
SampleAt(w, i) == IF i <= w.switch THEN w.first ELSE w.later

\* A different Evicted, for comparison: the newest entry is dropped.
Evicted_Newest(times) ==
    IF Len(times) > max_history THEN SubSeq(times, 1, Len(times) - 1) ELSE times

\* performance_monitor.py:68-69
Evicted(times) == IF Len(times) > max_history THEN Tail(times) ELSE times

Bump(n, flag) == IF flag THEN n + 1 ELSE n

\* performance_monitor.py:45-72 record_request: the metrics and the window
\* afterwards
record_request(m, times, sample) ==
    LET window == Evicted(Append(times, sample.response_time)) IN
    [metrics |->
        [m EXCEPT !.total_requests = @ + 1,
                  !.cache_hits = Bump(@, sample.cache_hit),
                  !.cache_misses = Bump(@, ~sample.cache_hit),
                  !.ai_calls_made = Bump(@, sample.ai_used),
                  !.fallback_used = Bump(@, sample.fallback_used),
                  !.error_count = Bump(@, sample.error_occurred),
                  !.avg_response_time = Ratio(Sum(window), Len(window))],
     request_times |-> window]

\* performance_monitor.py:104-114: (count / total_requests) * 100, or 0
Rate(count, total_requests) ==
    IF total_requests > 0 THEN Ratio(count * 100, total_requests) ELSE Zero

\* performance_monitor.py:116-124
PerformanceStatus(avg) ==
    IF Less(avg, Whole(1)) THEN "excellent"
    ELSE IF Less(avg, Whole(3)) THEN "good"
    ELSE IF Less(avg, Whole(5)) THEN "fair"
    ELSE "poor"

\* performance_monitor.py:98-129 get_metrics: the dict returned
get_metrics(m) ==
    [total_requests |-> m.total_requests, cache_hits |-> m.cache_hits,
     cache_misses |-> m.cache_misses,
     avg_response_time |-> m.avg_response_time,
     ai_calls_made |-> m.ai_calls_made, fallback_used |-> m.fallback_used,
     error_count |-> m.error_count, cpu_usage |-> m.cpu_usage,
     memory_usage |-> m.memory_usage, timestamp |-> m.timestamp,
     cache_hit_rate |-> Rate(m.cache_hits, m.total_requests),
     error_rate |-> Rate(m.error_count, m.total_requests),
     ai_usage_rate |-> Rate(m.ai_calls_made, m.total_requests),
     fallback_rate |-> Rate(m.fallback_used, m.total_requests),
     performance_status |-> PerformanceStatus(m.avg_response_time)]

\* A different EnoughForCacheAdvice, for comparison: one request more is
\* waited for.
EnoughForCacheAdvice_Later(m) == m.total_requests > 11

\* performance_monitor.py:137
EnoughForCacheAdvice(m) == m.total_requests > 10

If(cond, suggestion) == IF cond THEN <<suggestion>> ELSE <<>>

LowCacheHitRate == "Low cache hit rate - consider increasing cache TTL"

\* performance_monitor.py:131-170 get_optimization_suggestions
get_optimization_suggestions(m) ==
    LET cache_rate == Ratio(m.cache_hits * 100, m.total_requests)
        error_rate == Ratio(m.error_count * 100, m.total_requests)
        fallback_rate == Ratio(m.fallback_used * 100, m.total_requests)
        avg == m.avg_response_time
        suggestions ==
            If(EnoughForCacheAdvice(m) /\ Less(cache_rate, Whole(30)),
               LowCacheHitRate)
         \o If(EnoughForCacheAdvice(m) /\ ~Less(cache_rate, Whole(30))
                  /\ Less(Whole(80), cache_rate),
               "Excellent cache performance!")
         \o If(Less(Whole(5), avg),
               "High response times - consider using batch processing")
         \o If(~Less(Whole(5), avg) /\ Less(Whole(3), avg),
               "Moderate response times - consider optimizing prompts")
         \o If(m.total_requests > 0 /\ Less(Whole(10), error_rate),
               "High error rate - check AI service stability")
         \o If(m.total_requests > 0 /\ ~Less(Whole(10), error_rate)
                  /\ Less(Whole(5), error_rate),
               "Moderate error rate - consider adding more fallbacks")
         \o If(m.total_requests > 0 /\ Less(Whole(50), fallback_rate),
               "High fallback usage - AI service may be unreliable")
         \o If(m.cpu_usage > 80,
               "High CPU usage - consider reducing concurrent requests")
         \o If(m.memory_usage > 80,
               "High memory usage - consider clearing cache more frequently")
    IN IF suggestions # <<>> THEN suggestions
       ELSE <<"Performance is optimal!">>

\* No call has been made on the monitor.
NoMonitorCall == [op |-> "init", ret |-> <<>>]

\* A run that records nothing: every request would be a cache hit.
NoWorkload == [first |-> Sample(0, TRUE, FALSE, FALSE, FALSE), switch |-> 1,
               later |-> Sample(0, TRUE, FALSE, FALSE, FALSE)]

\* performance_monitor.py:34-38 and :186: the monitor as constructed
MonitorStart ==
    /\ metrics = PerformanceMetrics
    /\ request_times = <<>>
    /\ monitorCall = NoMonitorCall

\* The threads that use the monitor: two scoring threads that record
\* requests, a reader and the sampler thread (performance_monitor.py:42).
Recorders == {"scorer1", "scorer2"}
MonitorThreads == Recorders \cup {"reader", "sampler"}

\* A thread outside any call on the monitor.
Outside == [op |-> "none", pc |-> "idle", todo |-> <<>>, tmp |-> 0,
            response_time |-> 0, cpu_percent |-> 0, memory_percent |-> 0]

\* performance_monitor.py:38 and :186: nobody holds the lock, no thread is
\* in a call
MonitorThreadsStart ==
    /\ monitorThreads = [t \in MonitorThreads |-> Outside]
    /\ lock = "free"
    /\ seen = get_metrics(PerformanceMetrics)
    /\ recorded = 0

MonitorAtRest == MonitorStart /\ workload = NoWorkload /\ MonitorThreadsStart

\* main.py:36-42 oracle_status as constructed
OracleStatus(total_markets, total_attestations, last_update) ==
    [total_markets |-> total_markets, active_analyses |-> 0,
     total_attestations |-> total_attestations, last_update |-> last_update,
     blockchain_connected |-> TRUE]

\* The market ids that the markets feed uses.
MarketIds == {"m1", "m2"}

\* No result is stored for a market id (analysis_cache.get gives None).
NoAnalysis == [market_id |-> "", analysed_in |-> 0, tx_hash |-> "None"]

\* main.py:533-541 AnalysisResult(...) of the pass numbered analysed_in
\* (metadata['analysis_time'] tells the passes apart); tx_hash is None until
\* line 547 sets it.
AnalysisResult(market_id, analysed_in, tx_hash) ==
    [market_id |-> market_id, analysed_in |-> analysed_in, tx_hash |-> tx_hash]

\* No pass has been started.
NoPass == [n |-> 0, pc |-> "idle", markets |-> <<>>, i |-> 1, results |-> <<>>,
           ended |-> "init", raised |-> "", started_at |-> 0,
           status_before |-> OracleStatus(0, 0, 0),
           cache_before |-> [id \in MarketIds |-> NoAnalysis]]

NoOracleRead == [op |-> "init", ret |-> <<>>, waiting |-> FALSE,
                 arrived_at |-> "idle"]

\* main.py:31 and :36-42: the oracle store and status as constructed
OracleAtRest ==
    /\ analysis_cache = [id \in MarketIds |-> NoAnalysis]
    /\ oracle_status = OracleStatus(0, 0, 0)
    /\ pass = NoPass
    /\ aggregates = {OracleStatus(0, 0, 0)}
    /\ oracleRead = NoOracleRead

\* No fast-track call is put on the clock.
NoTiming == [durations |-> <<>>, busy |-> <<>>, called |-> FALSE,
             returned_at |-> 0, fallback_used |-> <<>>]

\* The components other than the cache, the scorer and the scheduler are
\* not used.
TimingAtRest == timing = NoTiming

\* The threads that call the scheduler, each outside any call, and nothing
\* appended or returned yet.
Callers == {"c1", "c2"}

NoCaller == [pc |-> "idle", op |-> "", pending |-> <<>>, batches |-> <<>>,
             futures |-> <<>>, harvested |-> {}, all_results |-> <<>>]

NoLedger == [offered |-> {}, appended |-> {}, answered |-> <<>>,
             pending |-> <<>>, flushes |-> 0]


CallersAtRest == callers = [c \in Callers |-> NoCaller] /\ ledger = NoLedger

\* No result dict exists yet and no batch call has been made.
NoTagCall == [n |-> 0, batch |-> <<>>, results |-> <<>>, analysed |-> <<>>,
              ttl |-> <<>>]

ResultsAtRest ==
    /\ heap = <<>>
    /\ lw_held = [k \in Keys |-> 0]
    /\ handed = <<>>
    /\ tagCall = NoTagCall

FurtherAtRest == CallersAtRest /\ ResultsAtRest

AtRest == TimingAtRest /\ MonitorAtRest /\ OracleAtRest /\ FurtherAtRest

\* The request and the fusion call of a run that scores and fuses nothing.
NoRequest == [content |-> CHOOSE c \in Contents : c.id = "hi", url |-> ""]

\* A run that scores, fuses and schedules nothing.
NothingDrawn ==
    /\ req = NoRequest /\ fusion = NoFusion /\ riskCall = NoRiskCall
    /\ batch_size = GlobalBatchSize /\ requests = <<>>

CacheInit == Start /\ NothingDrawn /\ AtRest

get(k) ==
    /\ memory_cache' = GetMem(memory_cache, disk, k, now)
    /\ disk' = GetDisk(memory_cache, disk, k, now)
    /\ last' = Call("get", k, GetRet(memory_cache, disk, k, now))
    /\ UNCHANGED <<now, lastSet, nsets, threadVars, scorerVars, serviceVars>>

set(k, v, ttl, w) ==
    /\ nsets < MaxSets
    /\ nsets' = nsets + 1
    /\ memory_cache' = SetMem(memory_cache, k, v, ttl, now)
    /\ disk' = SetDisk(disk, k, v, ttl, now, w)
    /\ last' = Call("set", k, None)
    /\ lastSet' = [lastSet EXCEPT ![k] =
                      [done |-> TRUE, data |-> v, ttl |-> ttl, at |-> now]]
    /\ UNCHANGED <<now, threadVars, scorerVars, serviceVars>>

cleanup ==
    /\ memory_cache' = CleanupMem(memory_cache, now)
    /\ disk' = CleanupDisk(disk, now)
    /\ last' = Call("cleanup", "k1", None)
    /\ UNCHANGED <<now, lastSet, nsets, threadVars, scorerVars, serviceVars>>

Tick ==
    /\ now < MaxTime
    /\ now' = now + 1
    /\ last' = Call("tick", "k1", None)
    /\ UNCHANGED <<memory_cache, disk, lastSet, nsets, threadVars, scorerVars, serviceVars>>

CacheNext ==
    \/ \E k \in Keys : get(k)
    \/ \E k \in Keys, v \in Data, ttl \in TtlArgs, w \in WriteOutcomes :
            set(k, v, ttl, w)
    \/ cleanup
    \/ Tick

SpecCache == CacheInit /\ [][CacheNext]_vars


----------------------------------------------------------------------------
(* The cache shared by worker threads (batch_processor.py:25, :58, :136:   *)
(* the executor's threads all use the module-level ai_cache).  The class   *)
(* takes no lock, so a thread may be preempted between any two of the      *)
(* steps below; each step is one access to the dict or to a file.          *)

GetPcs == {"g36", "g37", "g41", "g45", "g47", "g52", "g56"}
SetPcs == {"s73", "s78"}

Present(mem) == {k \in Keys : mem[k].kind = "entry"}

SetInProgress(k) ==
    \E u \in Threads : threads[u].pc \in SetPcs /\ threads[u].key = k

Goto(t, pc) == threads' = [threads EXCEPT ![t].pc = pc]

\* The call of thread t ends: it returns ret, or raises when raised # "".
Ends(t, op, ret, raised) ==
    /\ threads' = [threads EXCEPT ![t] = [Idle EXCEPT !.n = threads[t].n]]
    /\ LET c == lastSet[threads[t].key]
           owed == /\ op = "get" /\ threads[t].linear /\ c.done
                   /\ now - c.at < EffectiveTtl(c.ttl)
       IN done' = [op |-> op, ret |-> ret, raised |-> raised, owed |-> owed,
                   payload |-> IF owed THEN c.data ELSE None]

CanCall(t) == threads[t].pc = "idle" /\ threads[t].n < MaxCalls

BeginGet(t, k) ==
    /\ CanCall(t)
    /\ threads' = [threads EXCEPT ![t] =
          [Idle EXCEPT !.pc = "g36", !.key = k, !.n = threads[t].n + 1,
                       !.linear = ~SetInProgress(k)]]
    /\ UNCHANGED <<now, memory_cache, disk, last, lastSet, nsets, done, scorerVars, serviceVars>>

BeginSet(t, k, v, ttl) ==
    /\ CanCall(t)
    /\ nsets < MaxSets
    /\ nsets' = nsets + 1
    /\ threads' = [u \in Threads |->
          IF u = t
          THEN [Idle EXCEPT !.pc = "s73", !.key = k, !.v = v, !.ttl = ttl,
                            !.n = threads[t].n + 1,
                            !.linear = ~SetInProgress(k)]
          ELSE IF threads[u].pc \in GetPcs \cup SetPcs /\ threads[u].key = k
               THEN [threads[u] EXCEPT !.linear = FALSE]
               ELSE threads[u]]
    /\ UNCHANGED <<now, memory_cache, disk, last, lastSet, done, scorerVars, serviceVars>>

BeginCleanup(t) ==
    /\ CanCall(t)
    /\ threads' = [threads EXCEPT ![t] =
          [Idle EXCEPT !.pc = "c85", !.n = threads[t].n + 1]]
    /\ UNCHANGED <<now, memory_cache, disk, last, lastSet, nsets, done, scorerVars, serviceVars>>

\* line 36: if cache_key in self.memory_cache
Get36(t) ==
    /\ threads[t].pc = "g36"
    /\ IF memory_cache[threads[t].key].kind = "entry"
       THEN Goto(t, "g37") ELSE Goto(t, "g45")
    /\ UNCHANGED <<now, memory_cache, disk, last, lastSet, nsets, done, scorerVars, serviceVars>>

\* lines 37-39: entry = self.memory_cache[cache_key]; return it when valid
Get37(t) ==
    /\ threads[t].pc = "g37"
    /\ LET e == memory_cache[threads[t].key] IN
         IF e.kind # "entry" THEN Ends(t, "get", None, "KeyError")
         ELSE IF IsValid(e, now) THEN Ends(t, "get", e.data, "")
         ELSE Goto(t, "g41") /\ UNCHANGED done
    /\ UNCHANGED <<now, memory_cache, disk, last, lastSet, nsets, scorerVars, serviceVars>>

\* line 41: del self.memory_cache[cache_key]
Get41(t) ==
    /\ threads[t].pc = "g41"
    /\ IF memory_cache[threads[t].key].kind # "entry"
       THEN Ends(t, "get", None, "KeyError") /\ UNCHANGED memory_cache
       ELSE /\ memory_cache' = [memory_cache EXCEPT ![threads[t].key] = Absent]
            /\ Goto(t, "g45")
            /\ UNCHANGED done
    /\ UNCHANGED <<now, disk, last, lastSet, nsets, scorerVars, serviceVars>>

\* line 45: if os.path.exists(cache_path)
Get45(t) ==
    /\ threads[t].pc = "g45"
    /\ IF disk[threads[t].key].kind # "none"
       THEN Goto(t, "g47") /\ UNCHANGED done
       ELSE Ends(t, "get", None, "")
    /\ UNCHANGED <<now, memory_cache, disk, last, lastSet, nsets, scorerVars, serviceVars>>

\* lines 47-50: open and load; a missing or unloadable file raises into the
\* except clause of line 57 and the call returns None
Get47(t) ==
    /\ threads[t].pc = "g47"
    /\ LET e == disk[threads[t].key] IN
         IF e.kind # "entry" THEN Ends(t, "get", None, "")
         ELSE IF IsValid(e, now)
              THEN /\ threads' = [threads EXCEPT ![t].pc = "g52", ![t].entry = e]
                   /\ UNCHANGED done
              ELSE Goto(t, "g56") /\ UNCHANGED done
    /\ UNCHANGED <<now, memory_cache, disk, last, lastSet, nsets, scorerVars, serviceVars>>

\* lines 52-53: self.memory_cache[cache_key] = entry; return entry['data']
Get52(t) ==
    /\ threads[t].pc = "g52"
    /\ memory_cache' = [memory_cache EXCEPT ![threads[t].key] = threads[t].entry]
    /\ Ends(t, "get", threads[t].entry.data, "")
    /\ UNCHANGED <<now, disk, last, lastSet, nsets, scorerVars, serviceVars>>

\* line 56: os.remove(cache_path); FileNotFoundError is caught at line 57
Get56(t) ==
    /\ threads[t].pc = "g56"
    /\ disk' = [disk EXCEPT ![threads[t].key] = Absent]
    /\ Ends(t, "get", None, "")
    /\ UNCHANGED <<now, memory_cache, last, lastSet, nsets, scorerVars, serviceVars>>

\* lines 64-73: build the entry and store it in the memory tier
Set73(t) ==
    /\ threads[t].pc = "s73"
    /\ memory_cache' = SetMem(memory_cache, threads[t].key, threads[t].v,
                              threads[t].ttl, now)
    /\ threads' = [threads EXCEPT ![t].pc = "s78",
                                  ![t].entry = memory_cache'[threads[t].key]]
    /\ UNCHANGED <<now, disk, last, lastSet, nsets, done, scorerVars, serviceVars>>

\* lines 76-81: the best-effort disk write of that entry, then return
Set78(t, w) ==
    /\ threads[t].pc = "s78"
    /\ LET e == threads[t].entry IN
         /\ disk' = CASE w = "ok" ->
                            [disk EXCEPT ![threads[t].key] = e]
                      [] w = "open_fails" -> disk
                      [] w = "dump_fails" ->
                            [disk EXCEPT ![threads[t].key] = Corrupt]
         /\ lastSet' = [lastSet EXCEPT ![threads[t].key] =
                           IF threads[t].linear
                           THEN [done |-> TRUE, data |-> e.data,
                                 ttl |-> threads[t].ttl, at |-> e.timestamp]
                           ELSE NoSet]
    /\ Ends(t, "set", None, "")
    /\ UNCHANGED <<now, memory_cache, last, nsets, scorerVars, serviceVars>>

\* lines 85-89: current_time = time.time(); the comprehension starts to
\* iterate self.memory_cache.items(), whose iterator remembers the dict size
Cleanup85(t) ==
    /\ threads[t].pc = "c85"
    /\ threads' = [threads EXCEPT ![t].pc = "c88", ![t].t0 = now,
                                  ![t].used = Cardinality(Present(memory_cache))]
    /\ UNCHANGED <<now, memory_cache, disk, last, lastSet, nsets, done, scorerVars, serviceVars>>

\* lines 88-91: the iteration goes on; the iterator raises RuntimeError
\* (dictionary changed size during iteration) when the size has changed
Cleanup88(t) ==
    /\ threads[t].pc = "c88"
    /\ IF Cardinality(Present(memory_cache)) # threads[t].used
       THEN Ends(t, "cleanup", None, "RuntimeError")
       ELSE /\ threads' = [threads EXCEPT ![t].pc = "c93", ![t].todo =
                  {k \in Present(memory_cache) :
                       IsExpiredForCleanup(memory_cache[k], threads[t].t0)}]
            /\ UNCHANGED done
    /\ UNCHANGED <<now, memory_cache, disk, last, lastSet, nsets, scorerVars, serviceVars>>

\* lines 93-94: for key in expired_keys: del self.memory_cache[key]
Cleanup93(t) ==
    /\ threads[t].pc = "c93"
    /\ IF threads[t].todo = {}
       THEN Goto(t, "c97") /\ UNCHANGED <<memory_cache, done>>
       ELSE \E k \in threads[t].todo :
              IF memory_cache[k].kind # "entry"
              THEN Ends(t, "cleanup", None, "KeyError") /\ UNCHANGED memory_cache
              ELSE /\ memory_cache' = [memory_cache EXCEPT ![k] = Absent]
                   /\ threads' = [threads EXCEPT ![t].todo = threads[t].todo \ {k}]
                   /\ UNCHANGED done
    /\ UNCHANGED <<now, disk, last, lastSet, nsets, scorerVars, serviceVars>>

\* lines 97-112: the sweep of the cache directory, then return
Cleanup97(t) ==
    /\ threads[t].pc = "c97"
    /\ disk' = CleanupDisk(disk, threads[t].t0)
    /\ Ends(t, "cleanup", None, "")
    /\ UNCHANGED <<now, memory_cache, last, lastSet, nsets, scorerVars, serviceVars>>

ThreadTick ==
    /\ now < MaxTime
    /\ now' = now + 1
    /\ UNCHANGED <<memory_cache, disk, last, lastSet, nsets, threads, done, scorerVars, serviceVars>>

ThreadsNext ==
    \/ \E t \in Threads, k \in HotKeys : BeginGet(t, k)
    \/ \E t \in Threads, k \in HotKeys, v \in Data, ttl \in TtlArgs :
          BeginSet(t, k, v, ttl)
    \/ \E t \in Threads : BeginCleanup(t)
    \/ \E t \in Threads : Get36(t)
    \/ \E t \in Threads : Get37(t)
    \/ \E t \in Threads : Get41(t)
    \/ \E t \in Threads : Get45(t)
    \/ \E t \in Threads : Get47(t)
    \/ \E t \in Threads : Get52(t)
    \/ \E t \in Threads : Get56(t)
    \/ \E t \in Threads : Set73(t)
    \/ \E t \in Threads, w \in WriteOutcomes : Set78(t, w)
    \/ \E t \in Threads : Cleanup85(t)
    \/ \E t \in Threads : Cleanup88(t)
    \/ \E t \in Threads : Cleanup93(t)
    \/ \E t \in Threads : Cleanup97(t)
    \/ ThreadTick

SpecThreads == CacheInit /\ [][ThreadsNext]_vars

----------------------------------------------------------------------------
(* Claims about the cache used by one caller (SpecCache) *)

\* The latest set() on the key of the call that has just returned.
TheSet == lastSet[last.key]
Elapsed == now - TheSet.at

\* C1 (as stated): a get(key) made at elapsed time e after set(key, payload,
\* ttl), with no other set on that key in between, returns the payload iff
\* e < ttl; otherwise it returns None and the entry is then in neither tier.
C1_GetHonoursTtl ==
    (last.op = "get" /\ TheSet.done /\ TheSet.ttl # <<>>) =>
        /\ (last.ret = TheSet.data) <=> (Elapsed < TheSet.ttl[1])
        /\ ~(Elapsed < TheSet.ttl[1]) =>
              /\ last.ret = None
              /\ memory_cache[last.key] = Absent
              /\ disk[last.key] = Absent

C3_CleanupLeavesOnlyValid ==
    last.op = "cleanup" =>
        \A k \in Keys :
            /\ memory_cache[k].kind = "entry" => IsValid(memory_cache[k], now)
            /\ disk[k].kind = "entry" => IsValid(disk[k], now)

\* C4: a cleanup() that directly follows a cleanup(), with no time passing
\* in between, changes neither the memory tier nor the disk tier.
C4_CleanupIdempotent ==
    [][(last'.op = "cleanup" /\ last'.seq = "again")
          => (memory_cache' = memory_cache /\ disk' = disk)]_vars

\* Two cleanups in a row over a cache from which an entry has been swept.
C4_Witness ==
    /\ last.op = "cleanup" /\ last.seq = "again"
    /\ \E k \in Keys :
          /\ lastSet[k].done
          /\ now - lastSet[k].at > EffectiveTtl(lastSet[k].ttl)
          /\ memory_cache[k] = Absent /\ disk[k] = Absent

\* C5 (as stated): a get(key) that finds a corrupted disk record returns None
\* and has deleted that record.  (A get reaches the disk tier only on a
\* memory miss; a corrupt record is never loaded, so a get that returns while
\* the record is corrupt has found it corrupt.)
C5_GetDeletesCorruptRecord ==
    (last.op = "get" /\ last.ret = None) => disk[last.key].kind # "corrupt"

OnOtherKeyOrCleanup(k) ==
    \/ last'.op \in {"get", "set"} /\ last'.key # k
    \/ last'.op = "cleanup"

\* C8: a step of get or set on another key, or of cleanup, removes no entry
\* that is valid (age < ttl) from the tier that holds it.
C8_OnlyTtlEvicts ==
    [][\A k \in Keys :
          OnOtherKeyOrCleanup(k) =>
             /\ (memory_cache[k].kind = "entry" /\ IsValid(memory_cache[k], now))
                    => memory_cache'[k] = memory_cache[k]
             /\ (disk[k].kind = "entry" /\ IsValid(disk[k], now))
                    => disk'[k] = disk[k]]_vars

\* Every key is stored and valid in both tiers, and the call that has just
\* returned was a set on k2 resp. a cleanup.
C8_Witness ==
    /\ last.op = "set" /\ last.key = "k2"
    /\ \A k \in Keys :
          /\ memory_cache[k].kind = "entry" /\ IsValid(memory_cache[k], now)
          /\ disk[k].kind = "entry" /\ IsValid(disk[k], now)


ExpiresAt(e) == e.timestamp + e.ttl

\* C31: get(key) consults the memory tier first: a valid memory entry is
\* returned and the disk tier is left exactly as it was, whatever it holds
\* under the key.  On a memory miss a valid disk entry is returned and becomes
\* the memory entry with the timestamp and ttl it had on disk, so the promoted
\* entry expires when the disk entry does.
C31_MemoryFirstThenPromote ==
    [][\A k \in Keys :
          get(k) =>
             /\ MemHit(memory_cache, k, now) =>
                   /\ last'.ret = memory_cache[k].data
                   /\ disk' = disk
                   /\ memory_cache' = memory_cache
             /\ (~MemHit(memory_cache, k, now) /\ DiskHit(disk, k, now)) =>
                   /\ last'.ret = disk[k].data
                   /\ memory_cache'[k] = disk[k]
                   /\ memory_cache'[k].timestamp = disk[k].timestamp
                   /\ memory_cache'[k].ttl = disk[k].ttl
                   /\ ExpiresAt(memory_cache'[k]) = ExpiresAt(disk[k])
                   /\ disk' = disk]_vars

\* A get has just been served from the disk tier: the value returned is not
\* the one last stored in memory under the key (that entry had expired), the
\* memory entry is now the disk entry, and it is older than the read.
C31_Witness ==
    /\ last.op = "get" /\ last.ret # None
    /\ lastSet[last.key].done /\ lastSet[last.key].data # last.ret
    /\ memory_cache[last.key] = disk[last.key]
    /\ memory_cache[last.key].kind = "entry"
    /\ memory_cache[last.key].timestamp < now


----------------------------------------------------------------------------
(* Claims about the cache shared by worker threads (SpecThreads) *)

\* C6 (as stated): once set(k, v) has completed, every later get(k) made
\* before that entry expires returns v, also when the disk write of the set
\* failed and when gets and sets on k come from different threads.  Checked
\* on the gets that owe it beyond dispute: no set on k was in progress at any
\* moment of the get, and the latest completed set was unexpired at return.
C6_SetVisibleToLaterGet ==
    (done.op = "get" /\ done.owed /\ done.raised = "")
        => done.ret = done.payload

\* C7 (as stated): in every interleaving of get, set and cleanup calls on
\* the same cache, no call raises.
C7_NoCallRaises == done.raised = ""


----------------------------------------------------------------------------
(* The scorer.  A run scores one request, any number of times, through     *)
(* either entry point and under any behaviour of the AI call.  self.cache  *)
(* is keyed by (content, url) and a call reads and writes its own key      *)
(* only, so the entries of other requests do not bear on a call.           *)

Scored(fn, ai, r) ==
    /\ cache' = r.cache
    /\ sc' = [fn |-> fn, ai |-> ai, raised |-> r.raised, result |-> r.result,
              scores |-> r.scores,
              ai_called |-> r.ai_called, from_cache |-> r.from_cache]
    /\ UNCHANGED <<now, req, cacheVars, threadVars, serviceVars>>

AnalyzeContentEnhanced(ai, reply) ==
    Scored("analyze_content_enhanced", ai,
           analyze_content_enhanced(req.content, req.url, ai, reply, cache, now))

AnalyzeSingleItem(ai, reply) ==
    Scored("_analyze_single_item", ai,
           _analyze_single_item(req.content, req.url, ai, reply, cache, now))

ScorerTick ==
    /\ now < MaxTime
    /\ now' = now + 1
    /\ sc' = NoScore
    /\ UNCHANGED <<cacheVars, threadVars, cache, req, serviceVars>>

ScorerNext ==
    \/ \E ai \in AiBehaviours, reply \in ScorerReplies :
            AnalyzeContentEnhanced(ai, reply)
    \/ \E ai \in AiBehaviours, reply \in ScorerReplies :
            AnalyzeSingleItem(ai, reply)
    \/ ScorerTick

ScorerInit ==
    /\ Start /\ req \in Requests /\ fusion = NoFusion /\ riskCall = NoRiskCall
    /\ batch_size = GlobalBatchSize /\ requests = <<>>
    /\ AtRest

SpecScorer == ScorerInit /\ [][ScorerNext]_vars

----------------------------------------------------------------------------
(* Fusion alone: a run makes one call of _combine_results on arguments     *)
(* drawn at the start.                                                     *)

CombineResults ==
    /\ ~fusion.called
    /\ fusion' = [fusion EXCEPT
                     !.called = TRUE,
                     !.out = _combine_results(fusion.ai, fusion.rn, fusion.rd,
                                              DomainScoreOrDefault(fusion.url))]
    /\ UNCHANGED <<now, cacheVars, threadVars, scorerVars, riskVars, batchVars,
                   restVars>>

FusionNext == CombineResults

FusionInit ==
    /\ Start /\ req = NoRequest /\ fusion \in FusionCalls /\ riskCall = NoRiskCall
    /\ batch_size = GlobalBatchSize /\ requests = <<>>
    /\ AtRest

SpecFusion == FusionInit /\ [][FusionNext]_vars

----------------------------------------------------------------------------
(* Claims about fusion (SpecFusion) *)

\* C11: for every credibility, manipulation and confidence value of the AI
\* result, in or out of range, and every pattern risk and domain score, the
\* result of _combine_results has credibility_score and manipulation_risk in
\* [0, 100] and confidence in [0.1, 0.95].
C11_FusedInRange ==
    fusion.called =>
        /\ 0 <= fusion.out.credibility_score
        /\ fusion.out.credibility_score <= 100 * fusion.out.den
        /\ 0 <= fusion.out.manipulation_risk
        /\ fusion.out.manipulation_risk <= 100 * fusion.out.den
        /\ 10 <= fusion.out.confidence
        /\ fusion.out.confidence <= 95

\* An AI result out of range in all three values, clamped at the top of
\* credibility and confidence and at the bottom of manipulation.
C11_Witness ==
    /\ fusion.called
    /\ fusion.ai = [credibility_score |-> 150, manipulation_risk |-> -20,
                    confidence |-> 300]
    /\ fusion.rn = 0
    /\ fusion.out.credibility_score = 100 * fusion.out.den
    /\ fusion.out.manipulation_risk = 0
    /\ fusion.out.confidence = 95

\* C12: when the AI returns credibility 150, the fused credibility_score is
\* exactly 100, for every pattern risk in [0, 1] and every domain score.
C12_Credibility150FusesTo100 ==
    (fusion.called /\ fusion.ai.credibility_score = 150)
        => fusion.out.credibility_score = 100 * fusion.out.den

\* The heaviest deductions: pattern risk 1 and a low-reputation domain.
C12_Witness ==
    /\ fusion.called /\ fusion.ai.credibility_score = 150
    /\ fusion.rn = fusion.rd /\ fusion.url = "low"
    /\ fusion.out.credibility_score = 100 * fusion.out.den

----------------------------------------------------------------------------
(* Risk scorer alone: a run makes one call of risk_score on arguments      *)
(* drawn at the start.                                                     *)

RiskScore ==
    /\ ~riskCall.called
    /\ LET r == risk_score(riskCall.market, riskCall.link_quality_variance,
                           riskCall.comments, riskCall.reply)
       IN riskCall' = [riskCall EXCEPT !.called = TRUE, !.raised = r.raised,
                                       !.risk = r.risk]
    /\ UNCHANGED <<now, cacheVars, threadVars, scorerVars, fusionVars, batchVars,
                   restVars>>

RiskNext == RiskScore

RiskInit ==
    /\ Start /\ req = NoRequest /\ fusion = NoFusion /\ riskCall \in RiskCalls
    /\ batch_size = GlobalBatchSize /\ requests = <<>>
    /\ AtRest

SpecRisk == RiskInit /\ [][RiskNext]_vars

----------------------------------------------------------------------------
(* Claims about the risk scorer (SpecRisk) *)

\* The weighted sum 0.30 * onchain_anomaly + 0.20 * order_flow
\* + 0.30 * sentiment_volatility + 0.10 * link_quality_variance
\* + 0.10 * illiquidity_penalty of the call, in hundredths.
WeightedSum100 ==
    30 * onchain_anomaly(riskCall.market) + 20 * order_flow_imbalance
    + 30 * sentiment_volatility(riskCall.comments, riskCall.reply)
    + 10 * riskCall.link_quality_variance
    + 10 * (IF riskCall.market.volume24h.samples = <<>>
            THEN 10 ELSE illiquidity_penalty(riskCall.market))

\* C15 (as stated): for every market sample window, link_quality_variance
\* and sentiment output, risk_score returns a risk in [0, 100], the rounded
\* weighted sum clamped to [0, 100].
C15_RiskIsClampedWeightedSum ==
    riskCall.called =>
        /\ riskCall.raised = ""
        /\ 0 <= riskCall.risk /\ riskCall.risk <= 100
        /\ riskCall.risk = Max(0, Min(100, RoundHalfEven(WeightedSum100, 100)))


\* C9 (as stated): for every content, url and behaviour of the AI call,
\* analyze_content_enhanced and _analyze_single_item return and never raise.
C9_ScorerNeverRaises == sc.raised = ""

PatternRiskAbove70(c) == 10 * RiskNum(c) > 7 * RiskDen(c)
DomainScoreBelow30(u) == u # "" /\ domain_score(u) < 30
RuleApplies == PatternRiskAbove70(req.content) \/ DomainScoreBelow30(req.url)

\* C10 (as stated): whenever the pattern manipulation risk is > 0.7 or the
\* domain score is < 30, scoring returns the heuristic fallback and makes no
\* AI call; when neither holds and the result is not served from cache, the
\* AI call is made.
C10_ShortCircuitOrAi ==
    sc.fn = "_analyze_single_item" =>
        /\ RuleApplies => (sc.result = Fallback /\ ~sc.ai_called)
        /\ (~RuleApplies /\ ~sc.from_cache) => sc.ai_called

\* C10 (amended): in _analyze_single_item, whenever the pattern manipulation
\* risk is > 0.7 or the domain score is < 30 the heuristic fallback is
\* returned and no AI call is made; when neither holds and the result is not
\* served from cache, the AI call is made iff the stripped content has at
\* least 10 characters and the cache key of the content can be computed;
\* shorter content gets the fixed too-short result.
C10_ShortCircuitElseAiUnlessShort ==
    sc.fn = "_analyze_single_item" =>
        /\ RuleApplies => (sc.result = Fallback /\ ~sc.ai_called)
        /\ (~RuleApplies /\ ~sc.from_cache) =>
              /\ sc.ai_called <=> (req.content.chars >= 10 /\ req.content.encodable)
              /\ (req.content.chars < 10 /\ req.content.encodable)
                    => sc.result = TooShort

\* The rule did not apply and the AI call was made.
C10_Witness ==
    /\ sc.fn = "_analyze_single_item"
    /\ ~RuleApplies /\ ~sc.from_cache /\ sc.ai_called
    /\ req.content.id = "edge" /\ req.url = "medium"

\* The outcomes of the AI call that are failures: it raises, or its reply
\* is malformed (not JSON, JSON that is no object, scores that are no
\* numbers, no content at all).
AiFailed == sc.ai # "json"

ScoresInRange(x) ==
    /\ 0 <= x.credibility_score /\ x.credibility_score <= 100 * x.den
    /\ 0 <= x.manipulation_risk /\ x.manipulation_risk <= 100 * x.den

IsHeuristicFallback ==
    /\ sc.result = Fallback
    /\ sc.result.fallback_mode
    /\ sc.scores.confidence = 40
    /\ ScoresInRange(sc.scores)

C14_MoonScenario ==
    (/\ sc.fn = "_analyze_single_item"
     /\ req.content.id = "moon" /\ req.url = "low") =>
        /\ 2 * RiskNum(req.content) > RiskDen(req.content)
        /\ ~sc.ai_called /\ sc.result = Fallback
        /\ sc.scores.manipulation_risk > 60 * sc.scores.den


----------------------------------------------------------------------------
(* The scheduler used by one caller at a time.  A run is given a batch     *)
(* size and the list of requests it makes its fast-track calls with.       *)

\* What a call in which process_batch returned r leaves behind.
Returned(op, args, r) ==
    /\ processing_queue' = <<>>                                            \* :67
    /\ dispatch' = r.batches
    /\ memory_cache' = r.after.mem
    /\ disk' = r.after.dsk
    /\ cache' = r.after.cache
    /\ batchCall' = [op |-> op, args |-> args, none |-> FALSE,
                     ret |-> r.answered, outcomes |-> <<>>, raised |-> ""]

\* A call that runs process_batch on the queue q, going as run tells.
Processed(op, args, q, run) ==
    Returned(op, args,
             process_batch(q, batch_size, run.order, run.ais, run.ws,
                           memory_cache, disk, cache, now))

\* concurrent/futures/thread.py: submit() on an executor that has been shut
\* down raises RuntimeError.  The call ends there; q is the queue it leaves.
SubmitRefused(op, args, q) ==
    /\ processing_queue' = q
    /\ dispatch' = <<>>
    /\ batchCall' = [op |-> op, args |-> args, none |-> FALSE, ret |-> <<>>,
                     outcomes |-> <<>>, raised |-> "RuntimeError"]
    /\ UNCHANGED <<memory_cache, disk, cache>>

\* batch_processor.py:38-69 process_batch run by the call op on the queue q:
\* an empty queue returns [] at line 41; otherwise the queue is sorted in
\* place (line 44) and the sub-batches are submitted (line 58).
RunsProcessBatch(op, args, q) ==
    IF executor = "running" \/ q = <<>>
    THEN \E run \in BatchRuns(q, batch_size) : Processed(op, args, q, run)
    ELSE SubmitRefused(op, args, SortByPriority(q))

\* batch_processor.py:28-36
add_to_queue(request) ==
    LET q == Append(processing_queue, request) IN
    /\ IF BatchIsFull(q, batch_size)
       THEN RunsProcessBatch("add_to_queue", <<request>>, q)
       ELSE /\ processing_queue' = q
            /\ batchCall' = [op |-> "add_to_queue", args |-> <<request>>,
                             none |-> TRUE, ret |-> <<>>, outcomes |-> <<>>,
                             raised |-> ""]
            /\ dispatch' = <<>>
            /\ UNCHANGED <<memory_cache, disk, cache>>
    /\ UNCHANGED <<now, last, lastSet, nsets, threadVars, req, sc, fusionVars,
                   riskVars, batch_size, requests, executor, restVars>>

\* batch_processor.py:216-218 flush_queue, :38-69 process_batch
flush_queue ==
    /\ RunsProcessBatch("process_batch", <<>>, processing_queue)
    /\ UNCHANGED <<now, last, lastSet, nsets, threadVars, req, sc, fusionVars,
                   riskVars, batch_size, requests, executor, restVars>>

\* What a fast-track call that returns r leaves behind.
FastTracked(r, how) ==
    /\ cache' = r.cache
    /\ batchCall' = [op |-> "process_high_priority", args |-> requests,
                     none |-> FALSE, ret |-> r.results,
                     outcomes |-> how.outcomes, raised |-> ""]

\* The first submit of a fast-track call (line 136) on an executor that has
\* been shut down.
FastTrackRefused ==
    /\ cache' = cache
    /\ batchCall' = [op |-> "process_high_priority", args |-> requests,
                     none |-> FALSE, ret |-> <<>>, outcomes |-> <<>>,
                     raised |-> "RuntimeError"]

\* lines 127-130: a list without high-priority requests returns [] before
\* anything is submitted
NothingToSubmit == SelectSeq(requests, LAMBDA x : x.priority = 1) = <<>>

\* A different ProcessHighPriority, for comparison: the requests that are
\* not of high priority are put on the queue.
ProcessHighPriority_Deferring(how) ==
    /\ IF executor = "running" \/ NothingToSubmit
       THEN FastTracked(process_high_priority(requests, how, cache, now), how)
       ELSE FastTrackRefused
    /\ processing_queue' =
          processing_queue \o SelectSeq(requests, LAMBDA x : x.priority # 1)
    /\ dispatch' = <<>>
    /\ UNCHANGED <<now, cacheVars, threadVars, req, sc, fusionVars, riskVars,
                   batch_size, requests, executor, restVars>>

\* batch_processor.py:123-161
ProcessHighPriority(how) ==
    /\ IF executor = "running" \/ NothingToSubmit
       THEN FastTracked(process_high_priority(requests, how, cache, now), how)
       ELSE FastTrackRefused
    /\ dispatch' = <<>>
    /\ UNCHANGED <<now, cacheVars, threadVars, req, sc, fusionVars, riskVars,
                   processing_queue, batch_size, requests, executor, restVars>>

\* A different get_queue_status, for comparison: every request that is not
\* of high priority counts as medium.
get_queue_status_TwoTiers(q, size) ==
    [queue_length |-> Len(q),
     batch_size |-> size,
     max_workers |-> max_workers,
     priority_distribution |->
        [high |-> Len(SelectSeq(q, LAMBDA r : r.priority = 1)),
         medium |-> Len(SelectSeq(q, LAMBDA r : r.priority # 1)),
         low |-> Len(SelectSeq(q, LAMBDA r : r.priority = 3))]]

\* batch_processor.py:163-174 get_queue_status: the dict returned
get_queue_status(q, size) ==
    [queue_length |-> Len(q),
     batch_size |-> size,
     max_workers |-> max_workers,
     priority_distribution |->
        [high |-> Len(SelectSeq(q, LAMBDA r : r.priority = 1)),
         medium |-> Len(SelectSeq(q, LAMBDA r : r.priority = 2)),
         low |-> Len(SelectSeq(q, LAMBDA r : r.priority = 3))]]

GetQueueStatus ==
    /\ batchCall' = [op |-> "get_queue_status", args |-> <<>>, none |-> FALSE,
                     ret |-> <<get_queue_status(processing_queue, batch_size)>>,
                     outcomes |-> <<>>, raised |-> ""]
    /\ dispatch' = <<>>
    /\ UNCHANGED <<now, cacheVars, threadVars, scorerVars, fusionVars, riskVars,
                   processing_queue, batch_size, requests, executor, restVars>>

\* batch_processor.py:180-182 shutdown
Shutdown ==
    /\ executor' = "shutdown"
    /\ batchCall' = [op |-> "shutdown", args |-> <<>>, none |-> TRUE,
                     ret |-> <<>>, outcomes |-> <<>>, raised |-> ""]
    /\ dispatch' = <<>>
    /\ UNCHANGED <<now, cacheVars, threadVars, scorerVars, fusionVars, riskVars,
                   processing_queue, batch_size, requests, restVars>>

BatchNext ==
    \/ \E request \in BatchRequests : add_to_queue(request)
    \/ flush_queue
    \/ \E how \in FastTrackRuns(SelectSeq(requests, LAMBDA x : x.priority = 1)) :
            ProcessHighPriority(how)

BatchInit ==
    /\ Start /\ req = NoRequest /\ fusion = NoFusion /\ riskCall = NoRiskCall
    /\ batch_size \in 1 .. MaxBatchSize
    /\ requests \in RequestLists
    /\ AtRest

SpecBatch == BatchInit /\ [][BatchNext]_vars


----------------------------------------------------------------------------
(* Claims about the scheduler used by one caller (SpecBatch) *)

AddedRequest == batchCall'.args[1]

C18_FastTrackLeavesQueue ==
    [][batchCall'.op = "process_high_priority"
          => processing_queue' = processing_queue]_vars

\* A fast-track call in which a scoring timed out has returned while a
\* request was pending.
C18_Witness ==
    /\ batchCall.op = "process_high_priority"
    /\ processing_queue # <<>>
    /\ \E i \in 1 .. Len(batchCall.outcomes) : batchCall.outcomes[i] = "timeout"
    /\ Len(batchCall.ret) = 2

\* C19 (as stated): the list process_high_priority returns holds exactly one
\* result for every request of the input list, in input order, each carrying
\* that request's market_id and fast_track = True.
C19_OneResultPerRequest ==
    batchCall.op = "process_high_priority" =>
        /\ Len(batchCall.ret) = Len(batchCall.args)
        /\ \A i \in 1 .. Len(batchCall.ret) :
              /\ batchCall.ret[i].market_id = batchCall.args[i].market_id
              /\ batchCall.ret[i].fast_track

HighPriority(reqs) == SelectSeq(reqs, LAMBDA r : r.priority = 1)

----------------------------------------------------------------------------
(* The priority split alone: a run starts with a queue of 2 High, 3 Medium *)
(* and 5 Low requests pending and a batch size, and makes process_batch    *)
(* run once, its sub-batches completing in the order they were submitted   *)
(* and every AI call answering.                                            *)

SplitMarkets == <<"q1", "q2", "q3", "q4", "q5", "q6", "q7", "q8", "q9", "q10">>

\* The queue with the High requests at the positions hs, the Low requests
\* before the Medium ones in what is left.
PendingMix(hs) ==
    [i \in 1 .. 10 |->
        BatchAnalysisRequest(ContentById("rates"), "medium", SplitMarkets[i],
            IF i \in hs THEN 1
            ELSE IF i - Cardinality({h \in hs : h < i}) <= 5 THEN 3 ELSE 2)]

PendingMixes ==
    {PendingMix({a, b}) : a \in 1 .. 10, b \in 1 .. 10} \ {PendingMix({a}) : a \in 1 .. 10}

InSubmissionOrder(q, size) ==
    LET n == Len(Batches(q, size)) IN
    [order |-> [i \in 1 .. n |-> i],
     ais |-> [j \in 1 .. n |-> [i \in 1 .. Min(size, Len(q)) |-> "json"]],
     ws |-> [j \in 1 .. n |-> [i \in 1 .. Min(size, Len(q)) |-> "ok"]]]

\* batch_processor.py:38-69
ProcessBatch ==
    /\ processing_queue # <<>>
    /\ Processed("process_batch", <<>>, processing_queue,
                 InSubmissionOrder(processing_queue, batch_size))
    /\ UNCHANGED <<now, last, lastSet, nsets, threadVars, req, sc, fusionVars,
                   riskVars, batch_size, requests, executor, restVars>>

SplitNext == ProcessBatch \/ GetQueueStatus

SplitInit ==
    /\ now = 0
    /\ memory_cache = [k \in Keys |-> Absent]
    /\ disk = [k \in Keys |-> Absent]
    /\ last = NoCall
    /\ lastSet = [k \in Keys |-> NoSet]
    /\ nsets = 0
    /\ threads = [t \in Threads |-> Idle]
    /\ done = NoneDone
    /\ cache = {}
    /\ sc = NoScore
    /\ req = NoRequest /\ fusion = NoFusion /\ riskCall = NoRiskCall
    /\ requests = <<>>
    /\ dispatch = <<>>
    /\ executor = "running"
    /\ batchCall = NoBatchCall
    /\ processing_queue \in PendingMixes
    /\ batch_size \in 2 .. MaxSplitSize
    /\ AtRest

SpecSplit == SplitInit /\ [][SplitNext]_vars

----------------------------------------------------------------------------
(* The scheduler over its life (SpecLifecycle): the calls of SpecBatch,     *)
(* get_queue_status, and shutdown(), after which the executor accepts no    *)
(* task.  A refused call leaves its requests pending, so the queue is       *)
(* capped at MaxQueued.                                                     *)

LifecycleLists == {<<>>,
                   <<BatchAnalysisRequest(ContentById("rates"), "medium", "m1", 1)>>,
                   <<BatchAnalysisRequest(ContentById("moon"), "low", "m1", 2)>>}

LifecycleInit ==
    /\ Start /\ req = NoRequest /\ fusion = NoFusion /\ riskCall = NoRiskCall
    /\ batch_size \in 1 .. MaxBatchSize
    /\ requests \in LifecycleLists
    /\ AtRest

LifecycleNext ==
    \/ \E request \in BatchRequests :
          Len(processing_queue) < MaxQueued /\ add_to_queue(request)
    \/ flush_queue
    \/ \E how \in FastTrackRuns(SelectSeq(requests, LAMBDA x : x.priority = 1)) :
          ProcessHighPriority(how)
    \/ GetQueueStatus
    \/ Shutdown

SpecLifecycle == LifecycleInit /\ [][LifecycleNext]_vars

----------------------------------------------------------------------------
(* Claims about the scheduler over its life (SpecLifecycle) *)

\* C22 (as stated): no scheduler operation raises to its caller: add_to_queue,
\* process_batch, process_high_priority and get_queue_status all return
\* normally in every reachable state.
C22_NoOperationRaises == batchCall.raised = ""

----------------------------------------------------------------------------
(* Claims about the priority split (SpecSplit) *)

Pending(q, p) == Cardinality({i \in DOMAIN q : q[i].priority = p})

\* C23: get_queue_status reports queue_length equal to the number of pending
\* requests and a histogram whose high, medium and low counts are the numbers
\* of pending requests of priority 1, 2 and 3 and add up to queue_length; the
\* call leaves the queue unchanged.
C23_StatusCountsTheQueue ==
    [][GetQueueStatus =>
          LET status == batchCall'.ret[1]
              tiers == status.priority_distribution
          IN /\ status.queue_length = Len(processing_queue)
             /\ tiers.high = Pending(processing_queue, 1)
             /\ tiers.medium = Pending(processing_queue, 2)
             /\ tiers.low = Pending(processing_queue, 3)
             /\ tiers.high + tiers.medium + tiers.low = status.queue_length
             /\ processing_queue' = processing_queue]_vars

C23_Witness ==
    /\ batchCall.op = "get_queue_status"
    /\ batchCall.ret[1].queue_length = 10
    /\ batchCall.ret[1].priority_distribution = [high |-> 2, medium |-> 3, low |-> 5]
    /\ Len(processing_queue) = 10

InDispatchOrder(batches) == Concat(batches, [i \in 1 .. Len(batches) |-> i])

Tier(q, p) == SelectSeq(q, LAMBDA r : r.priority = p)

\* C32: process_batch sorts the pending requests by ascending priority
\* number, keeping arrival order among equal priorities, and splits that order
\* into consecutive sub-batches of exactly batch_size requests, the last one
\* possibly shorter: the sub-batches put end to end in dispatch order are the
\* sorted queue.
C32_SortedConsecutiveSplit ==
    [][ProcessBatch =>
          LET q == processing_queue
              n == Len(dispatch')
              flat == InDispatchOrder(dispatch')
          IN /\ Len(flat) = Len(q)
             /\ \A i, j \in 1 .. Len(flat) :
                   i < j => flat[i].priority <= flat[j].priority
             /\ \A p \in 1 .. 3 : Tier(flat, p) = Tier(q, p)
             /\ n >= 1
             /\ \A i \in 1 .. n - 1 : Len(dispatch'[i]) = batch_size
             /\ Len(dispatch'[n]) = Len(q) - (n - 1) * batch_size
             /\ Len(dispatch'[n]) \in 1 .. batch_size]_vars

\* The queue held its two High requests last (q9, q10) and batch_size was 3:
\* they lead the first sub-batch in arrival order, followed by the first
\* Medium request, and the fourth sub-batch holds the one request left.
C32_Witness ==
    /\ batchCall.op = "process_batch"
    /\ batch_size = 3
    /\ Len(dispatch) = 4 /\ Len(dispatch[4]) = 1
    /\ dispatch[1][1].market_id = "q9" /\ dispatch[1][2].market_id = "q10"
    /\ dispatch[1][3].priority = 2

\* C17 (as stated): with 2 High, 3 Medium and 5 Low requests pending and any
\* batch_size >= 2, the first sub-batch that process_batch dispatches
\* contains only High-priority requests.
C17_FirstSubBatchOnlyHigh ==
    batchCall.op = "process_batch" =>
        \A i \in 1 .. Len(dispatch[1]) : dispatch[1][i].priority = 1

----------------------------------------------------------------------------
(* The fast-track call on the clock, in seconds from the start of the      *)
(* call.  A run makes one call on a list of high-priority requests whose   *)
(* scorings take the drawn durations, the workers of the shared executor   *)
(* being busy with other tasks until the drawn times.                      *)

\* batch_processor.py:146  future.result(timeout=5)
ResultTimeout == 5

\* The seconds a scoring takes: well within the timeout, just over it, and
\* more than twice as long.
Durations == {1, 6, 12}

DurationLists ==
    {<<>>} \cup {<<a>> : a \in Durations}
           \cup {<<a, b>> : a \in Durations, b \in Durations}
           \cup {<<a, b, c>> : a \in Durations, b \in Durations, c \in Durations}

\* Per worker, the time at which it has finished what it was doing for
\* other callers when the call starts.
BusyUntil == {[w \in 1 .. max_workers |-> 0],
              [w \in 1 .. max_workers |-> IF w = 1 THEN 0 ELSE 8],
              [w \in 1 .. max_workers |-> 8]}

\* The worker that takes the next task of the executor's queue: the first
\* to become free.
NextWorker(free) ==
    CHOOSE w \in DOMAIN free : \A v \in DOMAIN free : free[w] <= free[v]

\* lines 135-141: the tasks are queued in list order and each worker takes
\* the next one when it is free; the times at which the tasks from i on end
RECURSIVE FinishTimes(_, _, _)
FinishTimes(durations, i, free) ==
    IF i > Len(durations) THEN <<>>
    ELSE <<free[NextWorker(free)] + durations[i]>>
            \o FinishTimes(durations, i + 1,
                           [free EXCEPT ![NextWorker(free)] = @ + durations[i]])

\* lines 144-159: the collecting loop waits for each future in turn, for
\* ResultTimeout seconds at most, counted from the moment it turns to it;
\* acc.at is the time reached, acc.fallback_used per request whether the
\* wait timed out.
RECURSIVE Collect(_, _, _)
Collect(finish, i, acc) ==
    IF i > Len(finish) THEN acc
    ELSE Collect(finish, i + 1,
                 IF finish[i] <= acc.at + ResultTimeout
                 THEN [at |-> Max(acc.at, finish[i]),
                       fallback_used |-> Append(acc.fallback_used, FALSE)]
                 ELSE [at |-> acc.at + ResultTimeout,
                       fallback_used |-> Append(acc.fallback_used, TRUE)])

\* batch_processor.py:132-161: when the call returns its list, and which of
\* its results are the loop's fallbacks
FastTrackTiming(durations, busy) ==
    Collect(FinishTimes(durations, 1, busy), 1,
            [at |-> 0, fallback_used |-> <<>>])

Timed(r) ==
    timing' = [timing EXCEPT !.called = TRUE, !.returned_at = r.at,
                             !.fallback_used = r.fallback_used]

FastTrackOnTheClock ==
    /\ ~timing.called
    /\ Timed(FastTrackTiming(timing.durations, timing.busy))
    /\ UNCHANGED <<now, cacheVars, threadVars, scorerVars, fusionVars, riskVars,
                   batchVars, monitorVars, monitorThreadVars, oracleVars,
                   furtherVars>>

TimingNext == FastTrackOnTheClock

TimingInit ==
    /\ Start /\ NothingDrawn /\ MonitorAtRest /\ OracleAtRest /\ FurtherAtRest
    /\ timing \in [durations : DurationLists, busy : BusyUntil,
                   called : {FALSE}, returned_at : {0},
                   fallback_used : {<<>>}]

SpecTiming == TimingInit /\ [][TimingNext]_vars

----------------------------------------------------------------------------
(* Claims about the fast-track call on the clock (SpecTiming) *)

\* C21 (as stated): for every request whose scoring exceeds 5 seconds,
\* process_high_priority delivers a result tagged fast_track and
\* fallback_used no later than about 5 seconds (here: 6) after the call
\* began, whatever the number of requests in the list and whatever else
\* occupies the shared worker pool.
C21_FallbackWithinFiveSeconds ==
    timing.called =>
        \A i \in 1 .. Len(timing.durations) :
            timing.durations[i] > ResultTimeout =>
                /\ timing.fallback_used[i]
                /\ timing.returned_at <= ResultTimeout + 1

----------------------------------------------------------------------------
(* The performance monitor, one call at a time (SpecMonitor):               *)
(* performance_monitor.py.  The run's traffic is drawn in Init; the         *)
(* sampler thread's loop body is one action.                                *)

otherThanMonitor == <<now, cacheVars, threadVars, scorerVars, fusionVars,
                      riskVars, batchVars, timingVars, oracleVars,
                      furtherVars>>

\* performance_monitor.py:45-72; the request recorded is the next of the
\* run's traffic
RecordRequest ==
    /\ metrics.total_requests < MaxRecorded
    /\ \E sample \in {SampleAt(workload, metrics.total_requests + 1)} :
          LET r == record_request(metrics, request_times, sample) IN
          /\ metrics' = r.metrics
          /\ request_times' = r.request_times
          /\ monitorCall' = [op |-> "record_request", ret |-> <<sample>>]
    /\ UNCHANGED <<otherThanMonitor, monitorThreadVars, workload>>

\* performance_monitor.py:98-129
GetMetrics ==
    /\ monitorCall' = [op |-> "get_metrics", ret |-> <<get_metrics(metrics)>>]
    /\ UNCHANGED <<otherThanMonitor, monitorThreadVars, metrics, request_times, workload>>

\* performance_monitor.py:131-170
GetOptimizationSuggestions ==
    /\ monitorCall' = [op |-> "get_optimization_suggestions",
                       ret |-> get_optimization_suggestions(metrics)]
    /\ UNCHANGED <<otherThanMonitor, monitorThreadVars, metrics, request_times, workload>>

\* performance_monitor.py:172-176
ResetMetrics ==
    /\ metrics' = PerformanceMetrics
    /\ request_times' = <<>>
    /\ monitorCall' = [op |-> "reset_metrics", ret |-> <<>>]
    /\ UNCHANGED <<otherThanMonitor, monitorThreadVars, workload>>

\* The loads the sampler reads: 50.0 is also the value used without psutil.
Loads == {50, 90}

\* performance_monitor.py:76-92 _monitor_system, one turn of the loop
MonitorSystem(cpu_percent, memory_percent) ==
    /\ metrics' = [metrics EXCEPT !.cpu_usage = cpu_percent,
                                  !.memory_usage = memory_percent,
                                  !.timestamp = "now"]
    /\ monitorCall' = [op |-> "_monitor_system", ret |-> <<>>]
    /\ UNCHANGED <<otherThanMonitor, monitorThreadVars, request_times, workload>>

MonitorNext ==
    \/ RecordRequest
    \/ GetMetrics
    \/ GetOptimizationSuggestions
    \/ ResetMetrics
    \/ \E cpu_percent \in Loads, memory_percent \in Loads :
          MonitorSystem(cpu_percent, memory_percent)

MonitorInit ==
    /\ Start /\ NothingDrawn /\ TimingAtRest /\ OracleAtRest /\ FurtherAtRest
    /\ MonitorStart /\ MonitorThreadsStart
    /\ workload \in Workloads

SpecMonitor == MonitorInit /\ [][MonitorNext]_vars

----------------------------------------------------------------------------
(* Claims about the performance monitor (SpecMonitor) *)

\* The requests recorded since the start or the last reset, and how many of
\* them a window of max_history holds.
Recorded == metrics.total_requests
Held == Min(Recorded, max_history)

\* The response times of the most recent Held requests, in arrival order.
MostRecent ==
    [j \in 1 .. Held |-> SampleAt(workload, Recorded - Held + j).response_time]

\* C24: after any sequence of record_request and reset_metrics calls the
\* latency window holds at most max_history entries, namely the most recent
\* ones in arrival order, and avg_response_time is the mean of the latencies
\* in the window (0.0 while the window is empty).
C24_WindowHoldsMostRecent ==
    /\ Len(request_times) <= max_history
    /\ request_times = MostRecent
    /\ IF Held = 0
       THEN metrics.avg_response_time = Zero
       ELSE Same(metrics.avg_response_time, Ratio(Sum(MostRecent), Held))

C24_Witness ==
    /\ monitorCall.op = "record_request"
    /\ Recorded > max_history
    /\ Len(request_times) = max_history
    /\ workload.switch > 1
    /\ workload.first.response_time # workload.later.response_time

\* How many of the requests still in the window have the property flag.
InWindow(flag(_)) ==
    Cardinality({i \in Recorded - Held + 1 .. Recorded :
                    flag(SampleAt(workload, i))})

WindowRate(flag(_)) == Rate(InWindow(flag), Held)

\* C25 (as stated): the cache-hit, error, AI-usage and fallback rates that
\* get_metrics returns are aggregated from the samples currently in the
\* rolling window: an evicted sample contributes to no reported rate.
C25_RatesFromWindow ==
    monitorCall.op = "get_metrics" =>
        LET ret == monitorCall.ret[1] IN
        /\ Same(ret.cache_hit_rate, WindowRate(LAMBDA x : x.cache_hit))
        /\ Same(ret.error_rate, WindowRate(LAMBDA x : x.error_occurred))
        /\ Same(ret.ai_usage_rate, WindowRate(LAMBDA x : x.ai_used))
        /\ Same(ret.fallback_rate, WindowRate(LAMBDA x : x.fallback_used))

Suggests(suggestion) ==
    \E i \in DOMAIN monitorCall.ret : monitorCall.ret[i] = suggestion

\* The cache-hit rate that get_metrics reports is below 30 (percent).
HitRateBelow30 == Less(Rate(metrics.cache_hits, metrics.total_requests), Whole(30))

\* C27 (as stated): whenever the current cache-hit rate is below 30%,
\* get_optimization_suggestions includes the suggestion to increase the
\* cache TTL, for every number of recorded requests.
C27_LowHitRateSuggestsTtl_AsStated ==
    (monitorCall.op = "get_optimization_suggestions" /\ HitRateBelow30)
        => Suggests(LowCacheHitRate)

\* C27 (amended): whenever more than 10 requests have been recorded since
\* the start or the last reset and the cache-hit rate over all of them is
\* below 30%, get_optimization_suggestions includes the suggestion to
\* increase the cache TTL; with 10 requests or fewer it never does.
C27_LowHitRateSuggestsTtl ==
    monitorCall.op = "get_optimization_suggestions" =>
        (Suggests(LowCacheHitRate) <=> (Recorded > 10 /\ HitRateBelow30))

C27_Witness ==
    /\ monitorCall.op = "get_optimization_suggestions"
    /\ Recorded = 11
    /\ HitRateBelow30
    /\ Suggests(LowCacheHitRate)

----------------------------------------------------------------------------
(* The performance monitor used by several threads (SpecMonitorThreads):    *)
(* two scoring threads in record_request, a reader in get_metrics and the   *)
(* sampler in _monitor_system.  Every `+=` on a counter is a read followed  *)
(* by a write; a thread can be preempted between any two steps.             *)

otherThanMonitorThreads == <<otherThanMonitor, workload, monitorCall>>

\* A different LockFree, for comparison: the lock never makes a thread wait.
LockFree_Always(holder) == TRUE

\* threading.Lock: acquire waits while another thread holds the lock
LockFree(holder) == holder = "free"

\* performance_monitor.py:50-64: the counters that a call increments, in
\* the order of the code
Counters(sample) ==
    <<"total_requests">>
    \o (IF sample.cache_hit THEN <<"cache_hits">> ELSE <<"cache_misses">>)
    \o (IF sample.ai_used THEN <<"ai_calls_made">> ELSE <<>>)
    \o (IF sample.fallback_used THEN <<"fallback_used">> ELSE <<>>)
    \o (IF sample.error_occurred THEN <<"error_count">> ELSE <<>>)

\* Thread t enters record_request (line 45), get_metrics (line 98) or the
\* body of the sampler's loop (lines 78-85, before the lock is taken).
Enters(t, op, sample, cpu_percent, memory_percent) ==
    /\ monitorThreads[t].pc = "idle"
    /\ monitorThreads' =
          [monitorThreads EXCEPT ![t] =
              [op |-> op, pc |-> "acquire", todo |-> Counters(sample),
               tmp |-> 0, response_time |-> sample.response_time,
               cpu_percent |-> cpu_percent, memory_percent |-> memory_percent]]
    /\ UNCHANGED <<metrics, request_times, lock, seen, recorded,
                   otherThanMonitorThreads>>

BeginRecord(t, sample) ==
    /\ recorded + Cardinality({u \in Recorders : monitorThreads[u].pc # "idle"})
          < MaxRecords
    /\ Enters(t, "record_request", sample, 0, 0)

BeginGetMetrics(t) == Enters(t, "get_metrics", NoWorkload.first, 0, 0)

BeginSample(t, cpu_percent, memory_percent) ==
    Enters(t, "_monitor_system", NoWorkload.first, cpu_percent, memory_percent)

\* `with self.lock:` (lines 49, 87, 100)
Acquire(t) ==
    /\ monitorThreads[t].pc = "acquire"
    /\ LockFree(lock)
    /\ lock' = t
    /\ monitorThreads' = [monitorThreads EXCEPT ![t].pc =
                             IF monitorThreads[t].op = "record_request"
                             THEN "load" ELSE "body"]
    /\ UNCHANGED <<metrics, request_times, seen, recorded,
                   otherThanMonitorThreads>>

\* lines 50-64, `self.metrics.<counter> += 1`: the read
Load(t) ==
    /\ monitorThreads[t].pc = "load"
    /\ monitorThreads' =
          [monitorThreads EXCEPT ![t].tmp = metrics[Head(monitorThreads[t].todo)],
                                 ![t].pc = "store"]
    /\ UNCHANGED <<metrics, request_times, lock, seen, recorded,
                   otherThanMonitorThreads>>

\* lines 50-64, `self.metrics.<counter> += 1`: the write
Store(t) ==
    /\ monitorThreads[t].pc = "store"
    /\ metrics' = [metrics EXCEPT ![Head(monitorThreads[t].todo)] =
                                     monitorThreads[t].tmp + 1]
    /\ monitorThreads' =
          [monitorThreads EXCEPT ![t].todo = Tail(@),
                                 ![t].pc = IF Tail(monitorThreads[t].todo) = <<>>
                                           THEN "window" ELSE "load"]
    /\ UNCHANGED <<request_times, lock, seen, recorded,
                   otherThanMonitorThreads>>

\* lines 67-72: the response time enters the window, the average is renewed
TrackTime(t) ==
    /\ monitorThreads[t].pc = "window"
    /\ LET window == Evicted(Append(request_times, monitorThreads[t].response_time))
       IN /\ request_times' = window
          /\ metrics' = [metrics EXCEPT !.avg_response_time =
                                           Ratio(Sum(window), Len(window))]
    /\ monitorThreads' = [monitorThreads EXCEPT ![t].pc = "release"]
    /\ UNCHANGED <<lock, seen, recorded, otherThanMonitorThreads>>

\* lines 101-129: the reader copies the metrics and derives the rates
ReadMetrics(t) ==
    /\ monitorThreads[t].pc = "body"
    /\ monitorThreads[t].op = "get_metrics"
    /\ seen' = get_metrics(metrics)
    /\ monitorThreads' = [monitorThreads EXCEPT ![t].pc = "release"]
    /\ UNCHANGED <<metrics, request_times, lock, recorded,
                   otherThanMonitorThreads>>

\* lines 88-90: the sampler stores what it measured
StoreSample(t) ==
    /\ monitorThreads[t].pc = "body"
    /\ monitorThreads[t].op = "_monitor_system"
    /\ metrics' = [metrics EXCEPT !.cpu_usage = monitorThreads[t].cpu_percent,
                                  !.memory_usage = monitorThreads[t].memory_percent,
                                  !.timestamp = "now"]
    /\ monitorThreads' = [monitorThreads EXCEPT ![t].pc = "release"]
    /\ UNCHANGED <<request_times, lock, seen, recorded,
                   otherThanMonitorThreads>>

\* the end of the `with` block: the lock is released and the call returns
Release(t) ==
    /\ monitorThreads[t].pc = "release"
    /\ lock' = "free"
    /\ recorded' = IF monitorThreads[t].op = "record_request"
                   THEN recorded + 1 ELSE recorded
    /\ monitorThreads' = [monitorThreads EXCEPT ![t] = Outside]
    /\ UNCHANGED <<metrics, request_times, seen, otherThanMonitorThreads>>

MonitorThreadsNext ==
    \/ \E t \in Recorders, sample \in Samples : BeginRecord(t, sample)
    \/ BeginGetMetrics("reader")
    \/ \E cpu_percent \in Loads : BeginSample("sampler", cpu_percent, 50)
    \/ \E t \in MonitorThreads :
          \/ Acquire(t)
          \/ Load(t)
          \/ Store(t)
          \/ TrackTime(t)
          \/ ReadMetrics(t)
          \/ StoreSample(t)
          \/ Release(t)

MonitorThreadsInit ==
    /\ Start /\ NothingDrawn /\ TimingAtRest /\ OracleAtRest /\ FurtherAtRest
    /\ MonitorAtRest

SpecMonitorThreads == MonitorThreadsInit /\ [][MonitorThreadsNext]_vars

----------------------------------------------------------------------------
(* Claims about the monitor used by several threads (SpecMonitorThreads) *)

NoRecorderInCall == \A t \in Recorders : monitorThreads[t].pc = "idle"

\* C26: monitor counters lose no update under concurrency: once N
\* record_request calls made from several threads, interleaved with
\* get_metrics and the sampler, have returned, total_requests is N; and
\* whatever a reader is given has cache_hits + cache_misses =
\* total_requests and ai_calls_made, fallback_used and error_count each at
\* most total_requests.
C26_NoLostUpdate ==
    /\ NoRecorderInCall => metrics.total_requests = recorded
    /\ seen.cache_hits + seen.cache_misses = seen.total_requests
    /\ seen.ai_calls_made <= seen.total_requests
    /\ seen.fallback_used <= seen.total_requests
    /\ seen.error_count <= seen.total_requests

C26_Witness ==
    /\ NoRecorderInCall
    /\ recorded = MaxRecords
    /\ seen.total_requests = 1
    /\ seen.cache_hits = 0
    /\ seen.ai_calls_made = 1
    /\ metrics.cache_hits = 1
    /\ metrics.cpu_usage = 90

----------------------------------------------------------------------------
(* The oracle store and status (SpecOracle): main.py.  perform_analysis and *)
(* the route handlers are coroutines on one event loop (routers.py:88-97,   *)
(* app.py:33-35); a coroutine runs until it returns or awaits, and          *)
(* perform_analysis has no await.  Time passes at any point.                *)

otherThanOracle == <<cacheVars, threadVars, scorerVars, fusionVars, riskVars,
                     batchVars, timingVars, monitorVars, monitorThreadVars,
                     furtherVars>>

\* What happens to one market of a pass: its attestation is submitted
\* (line 546), the submission raises and is caught at line 549, or the
\* scoring, put_json or int() raises (lines 514-541), which ends the pass at
\* line 563.
Fates == {"attested", "unattested", "raises"}

Market(market_id, fate) == [market_id |-> market_id, fate |-> fate]

\* The lists that get_cached_markets returns (line 501) in the runs tried,
\* each market with its fate: no market, one market, two markets of which
\* one is not attested, a pass that fails at its second market, and a feed
\* that has the same id twice.
MarketLists ==
    { <<>>,
      <<Market("m1", "attested")>>,
      <<Market("m1", "attested"), Market("m2", "unattested")>>,
      <<Market("m2", "attested"), Market("m1", "raises")>>,
      <<Market("m1", "unattested"), Market("m1", "attested")>> }

\* A different LoopFree, for comparison: a handler runs whatever the
\* position of perform_analysis (as a thread would).
LoopFree_Always(p) == TRUE

\* main.py:495-564 has no await: once perform_analysis runs, no other
\* coroutine of the event loop runs before it returns.
LoopFree(p) == p.pc = "idle"

\* A different Stored, for comparison: a result already stored for the
\* market id is kept.
Stored_KeepFirst(store, result) ==
    IF store[result.market_id] = NoAnalysis
    THEN [store EXCEPT ![result.market_id] = result]
    ELSE store

\* main.py:553  analysis_cache[market_id] = result
Stored(store, result) == [store EXCEPT ![result.market_id] = result]

\* A different Attestations, for comparison: every result counts.
Attestations_All(results) == Len(results)

\* main.py:559  len([r for r in results if r.tx_hash])
Attestations(results) ==
    Len(SelectSeq(results, LAMBDA r : r.tx_hash # "None"))

\* main.py:495-504: the event loop starts to run a perform_analysis task
\* (trigger_analysis, the start-up task or periodic_analysis)
TriggerAnalysis(markets) ==
    /\ LoopFree(pass)
    /\ pass.n < MaxPasses
    /\ pass' = [n |-> pass.n + 1,
                pc |-> IF markets = <<>> THEN "total_markets" ELSE "loop",
                markets |-> markets, i |-> 1, results |-> <<>>,
                ended |-> "running", raised |-> "", started_at |-> now,
                status_before |-> oracle_status,
                cache_before |-> analysis_cache]
    /\ UNCHANGED <<now, analysis_cache, oracle_status, aggregates, oracleRead,
                   otherThanOracle>>

\* main.py:506-554, one turn of the loop; an exception leaves through the
\* handler at lines 563-564 and the coroutine returns
AnalyzeMarket ==
    /\ pass.pc = "loop"
    /\ LET market == pass.markets[pass.i]
           result == AnalysisResult(market.market_id, pass.n,
                                    IF market.fate = "attested"
                                    THEN "0x" ELSE "None")
       IN IF market.fate = "raises"
          THEN /\ pass' = [pass EXCEPT !.pc = "idle", !.ended = "failed"]
               /\ UNCHANGED analysis_cache
          ELSE /\ analysis_cache' = Stored(analysis_cache, result)
               /\ pass' = [pass EXCEPT
                             !.results = Append(@, result),
                             !.i = @ + 1,
                             !.pc = IF pass.i = Len(pass.markets)
                                    THEN "total_markets" ELSE "loop"]
    /\ UNCHANGED <<now, oracle_status, aggregates, oracleRead, otherThanOracle>>

\* main.py:557
SetTotalMarkets ==
    /\ pass.pc = "total_markets"
    /\ oracle_status' = [oracle_status EXCEPT !.total_markets = Len(pass.results)]
    /\ pass' = [pass EXCEPT !.pc = "last_update"]
    /\ UNCHANGED <<now, analysis_cache, aggregates, oracleRead, otherThanOracle>>

\* main.py:558
SetLastUpdate ==
    /\ pass.pc = "last_update"
    /\ oracle_status' = [oracle_status EXCEPT !.last_update = now]
    /\ pass' = [pass EXCEPT !.pc = "total_attestations"]
    /\ UNCHANGED <<now, analysis_cache, aggregates, oracleRead, otherThanOracle>>

\* main.py:559-561, after which the coroutine returns
SetTotalAttestations ==
    /\ pass.pc = "total_attestations"
    /\ oracle_status' = [oracle_status EXCEPT
                            !.total_attestations = Attestations(pass.results)]
    /\ aggregates' = aggregates \cup {oracle_status'}
    /\ pass' = [pass EXCEPT !.pc = "idle", !.ended = "complete"]
    /\ UNCHANGED <<now, analysis_cache, oracleRead, otherThanOracle>>

\* routers.py:94-95: a GET /status request arrives; its handler is run when
\* the event loop gets to it
StatusRequested ==
    /\ oracleRead' = [op |-> "get_status_service", ret |-> <<>>,
                      waiting |-> TRUE, arrived_at |-> pass.pc]
    /\ UNCHANGED <<now, analysis_cache, oracle_status, pass, aggregates,
                   otherThanOracle>>

\* routers.py:95-97, main.py:252-253
GetStatus ==
    /\ oracleRead.op = "get_status_service" /\ oracleRead.waiting
    /\ LoopFree(pass)
    /\ oracleRead' = [oracleRead EXCEPT !.ret = <<oracle_status>>,
                                        !.waiting = FALSE]
    /\ UNCHANGED <<now, analysis_cache, oracle_status, pass, aggregates,
                   otherThanOracle>>

\* routers.py:72-76, main.py:181-182
GetAnalysis(market_id) ==
    /\ LoopFree(pass)
    /\ oracleRead' = [op |-> "get_analysis_service",
                      ret |-> <<analysis_cache[market_id]>>,
                      waiting |-> FALSE, arrived_at |-> pass.pc]
    /\ UNCHANGED <<now, analysis_cache, oracle_status, pass, aggregates,
                   otherThanOracle>>

\* routers.py:390-396, main.py:570-578
ClearAllCaches ==
    /\ LoopFree(pass)
    /\ analysis_cache' = [id \in MarketIds |-> NoAnalysis]
    /\ oracleRead' = [op |-> "clear_all_caches", ret |-> <<>>,
                      waiting |-> FALSE, arrived_at |-> pass.pc]
    /\ UNCHANGED <<now, oracle_status, pass, aggregates, otherThanOracle>>

\* datetime.now() moves on
OracleTick ==
    /\ now < MaxTime
    /\ now' = now + 1
    /\ UNCHANGED <<oracleVars, otherThanOracle>>

OracleNext ==
    \/ \E markets \in MarketLists : TriggerAnalysis(markets)
    \/ AnalyzeMarket
    \/ SetTotalMarkets
    \/ SetLastUpdate
    \/ SetTotalAttestations
    \/ StatusRequested
    \/ GetStatus
    \/ \E market_id \in MarketIds : GetAnalysis(market_id)
    \/ ClearAllCaches
    \/ OracleTick

OracleInit ==
    /\ Start /\ NothingDrawn /\ TimingAtRest /\ MonitorAtRest /\ FurtherAtRest
    /\ OracleAtRest

SpecOracle == OracleInit /\ [][OracleNext]_vars

----------------------------------------------------------------------------
(* Claims about the oracle store and status (SpecOracle) *)

\* The step in which a perform_analysis pass returns.
PassEnds == pass.pc # "idle" /\ pass'.pc = "idle"

\* The positions in the pass's list of the markets that were analysed, and
\* the last of them for a market id.
Analysed(p) == {i \in DOMAIN p.markets : i <= Len(p.results)}
LastFor(p, id) ==
    CHOOSE i \in Analysed(p) :
        /\ p.markets[i].market_id = id
        /\ \A j \in Analysed(p) : p.markets[j].market_id = id => j <= i

\* C28: the oracle store keeps only the latest result per market id: when a
\* perform_analysis pass ends, analysis_cache holds for every market id
\* analysed in the pass the result that this pass produced for it (whatever
\* was stored before), and for every other market id what it held before
\* the pass.
C28_StoreKeepsLatestPerMarket ==
    [][PassEnds =>
          \A id \in MarketIds :
              IF \E i \in Analysed(pass') : pass'.markets[i].market_id = id
              THEN /\ analysis_cache'[id].analysed_in = pass.n
                   /\ analysis_cache'[id].market_id = id
                   /\ (analysis_cache'[id].tx_hash # "None")
                         <=> (pass'.markets[LastFor(pass', id)].fate = "attested")
              ELSE analysis_cache'[id] = pass.cache_before[id]]_vars

C28_Witness ==
    /\ pass.n = 2 /\ pass.ended = "complete"
    /\ Len(pass.markets) = 1
    /\ pass.cache_before["m1"].analysed_in = 1
    /\ analysis_cache["m1"].analysed_in = 2
    /\ analysis_cache["m2"].analysed_in = 1

\* C29: a reader that calls get_status_service while perform_analysis is
\* under way never sees a partially updated aggregate: the total_markets,
\* last_update and total_attestations it is given were all written by the
\* same pass (or are all the initial values).
C29_StatusNeverPartial ==
    (oracleRead.op = "get_status_service" /\ ~oracleRead.waiting)
        => oracleRead.ret[1] \in aggregates

C29_Witness ==
    /\ oracleRead.op = "get_status_service" /\ ~oracleRead.waiting
    /\ oracleRead.arrived_at = "last_update"
    /\ pass.n = 2
    /\ oracleRead.ret[1].total_markets = 2
    /\ oracleRead.ret[1].total_attestations = 1
    /\ oracleRead.ret[1].last_update = 1
    /\ pass.status_before.total_markets = 1

HowManyAttested(markets) ==
    Cardinality({i \in DOMAIN markets : markets[i].fate = "attested"})

\* C30: when a perform_analysis pass has gone through all the markets,
\* OracleStatus has total_markets equal to the number of markets analysed,
\* total_attestations equal to the number of them whose attestation was
\* submitted without error (at most total_markets) and a last_update taken
\* during the pass; when the pass fails part-way, perform_analysis raises
\* nothing and OracleStatus has all the values it had before the pass.
C30_StatusAfterPass ==
    [][PassEnds =>
          /\ pass'.raised = ""
          /\ IF \A i \in DOMAIN pass.markets : pass.markets[i].fate # "raises"
             THEN /\ pass'.ended = "complete"
                  /\ oracle_status'.total_markets = Len(pass.markets)
                  /\ oracle_status'.total_attestations = HowManyAttested(pass.markets)
                  /\ oracle_status'.total_attestations <= oracle_status'.total_markets
                  /\ oracle_status'.last_update >= pass.started_at
                  /\ oracle_status'.last_update <= now'
             ELSE /\ pass'.ended = "failed"
                  /\ oracle_status' = pass.status_before]_vars

C30_Witness ==
    /\ pass.n = 2 /\ pass.ended = "failed" /\ pass.pc = "idle"
    /\ Len(pass.results) = 1
    /\ oracle_status = pass.status_before
    /\ oracle_status.total_markets = 2
    /\ oracle_status.total_attestations = 1
    /\ oracle_status.last_update = 1

\* The market ids analysis_cache holds a result for.
HeldIds == {id \in MarketIds : analysis_cache[id] # NoAnalysis}

\* C39 (as stated): whenever no analysis pass is in progress,
\* oracle_status.total_markets equals the number of market ids held in
\* analysis_cache, after any sequence of perform_analysis passes and
\* clear_all_caches calls.
C39_TotalMarketsCountsStore ==
    LoopFree(pass) => oracle_status.total_markets = Cardinality(HeldIds)

----------------------------------------------------------------------------
(* The scheduler one statement at a time (SpecHarvest: one caller;          *)
(* SpecQueueThreads: two threads calling the same processor).  A call of    *)
(* add_to_queue or flush_queue is followed through its source lines; the    *)
(* sub-batches it submits are run by the executor's workers, each to its    *)
(* end in one step, the AI service answering and the disk writes going      *)
(* through.  A request is told by its market id and is appended once.       *)

MaxFlushes == 2      \* flush_queue calls per run

\* A content argument that is None, not a string.
NoneContent == [ContentById("hi") EXCEPT !.id = None]

\* The requests appended: one that takes the AI path, one that the
\* short-circuit answers, and one whose content is None instead of a string.
QueueRequests ==
    { BatchAnalysisRequest(ContentById("rates"), "medium", "m1", 2),
      BatchAnalysisRequest(ContentById("moon"), "low", "m2", 1),
      BatchAnalysisRequest(NoneContent, "", "m3", 1) }

\* lightweight_enhancer.py:95 content.lower() raises AttributeError for a
\* content that is None, in _analyze_single_item's try block and again in
\* the fallback of its except clause (batch_processor.py:119-121).
ScoringRaises(request) == request.content.id = None

\* The requests of a sub-batch that are analysed before one raises.
RECURSIVE Scored_Before(_)
Scored_Before(batch) ==
    IF batch = <<>> \/ ScoringRaises(Head(batch)) THEN <<>>
    ELSE <<Head(batch)>> \o Scored_Before(Tail(batch))

TaskRaises(batch) == \E i \in DOMAIN batch : ScoringRaises(batch[i])

InCall(c) == callers[c].pc # "idle"

Unharvested(cl) ==
    {i \in DOMAIN cl.batches : i \notin cl.harvested}

\* The returned list ret counted into the results returned so far.
Answered(sofar, ret) ==
    [request \in DOMAIN sofar |->
        sofar[request] + Cardinality({i \in DOMAIN ret : ret[i] = request})]

\* A call of c ends: what its caller sees, and what the run has returned.
CallEnds(c, none, ret, raised) ==
    /\ callers' = [callers EXCEPT ![c] = [NoCaller EXCEPT
                                             !.batches = callers[c].batches,
                                             !.futures = callers[c].futures]]
    /\ batchCall' = [op |-> callers[c].op, args |-> <<>>, none |-> none,
                     ret |-> ret, outcomes |-> <<>>, raised |-> raised]
    /\ dispatch' = callers[c].batches
    /\ ledger' = [ledger EXCEPT !.answered = Answered(@, ret),
                                !.pending = callers[c].pending]

\* batch_processor.py:30  self.processing_queue.append(request)
AppendRequest(c, request) ==
    /\ ~InCall(c)
    /\ \A i \in DOMAIN callers[c].futures : callers[c].futures[i] # "running"
    /\ request \in ledger.offered \ ledger.appended
    /\ processing_queue' = Append(processing_queue, request)
    /\ callers' = [callers EXCEPT ![c] = [NoCaller EXCEPT !.pc = "l33",
                                                         !.op = "add_to_queue"]]
    /\ ledger' = [ledger EXCEPT !.appended = @ \cup {request}]
    /\ UNCHANGED <<memory_cache, disk, cache, dispatch, batchCall>>

\* batch_processor.py:33-36  the threshold test of add_to_queue
CheckFull(c) ==
    /\ callers[c].pc = "l33"
    /\ IF BatchIsFull(processing_queue, batch_size)
       THEN /\ callers' = [callers EXCEPT ![c].pc = "l40"]
            /\ UNCHANGED <<batchCall, dispatch, ledger>>
       ELSE CallEnds(c, TRUE, <<>>, "")
    /\ UNCHANGED <<processing_queue, memory_cache, disk, cache>>

\* batch_processor.py:216-218  flush_queue calls process_batch
BeginFlush(c) ==
    /\ ~InCall(c)
    /\ \A i \in DOMAIN callers[c].futures : callers[c].futures[i] # "running"
    /\ ledger.flushes < MaxFlushes
    /\ callers' = [callers EXCEPT ![c] = [NoCaller EXCEPT !.pc = "l40",
                                                         !.op = "flush_queue"]]
    /\ ledger' = [ledger EXCEPT !.flushes = @ + 1]
    /\ UNCHANGED <<processing_queue, memory_cache, disk, cache, dispatch,
                   batchCall>>

\* batch_processor.py:40-41  if not self.processing_queue: return []
CheckEmpty(c) ==
    /\ callers[c].pc = "l40"
    /\ IF processing_queue = <<>>
       THEN CallEnds(c, FALSE, <<>>, "")
       ELSE /\ callers' = [callers EXCEPT ![c].pc = "l44",
                                          ![c].pending = processing_queue]
            /\ UNCHANGED <<batchCall, dispatch, ledger>>
    /\ UNCHANGED <<processing_queue, memory_cache, disk, cache>>

\* batch_processor.py:44  the queue is sorted in place
SortQueue(c) ==
    /\ callers[c].pc = "l44"
    /\ processing_queue' = SortByPriority(processing_queue)
    /\ callers' = [callers EXCEPT ![c].pc = "l47"]
    /\ UNCHANGED <<memory_cache, disk, cache, dispatch, batchCall, ledger>>

\* batch_processor.py:47-59  the queue is sliced into sub-batches and each
\* is submitted to the executor
SubmitBatches(c) ==
    /\ callers[c].pc = "l47"
    /\ LET batches == Batches(processing_queue, batch_size) IN
       callers' = [callers EXCEPT ![c].pc = "l62",
                                  ![c].batches = batches,
                                  ![c].futures = [i \in DOMAIN batches |-> "running"]]
    /\ UNCHANGED <<processing_queue, memory_cache, disk, cache, dispatch,
                   batchCall, ledger>>

\* batch_processor.py:71-93  a worker runs _process_single_batch on the
\* sub-batch i of c to its end
RunTask(c, i) ==
    /\ i \in DOMAIN callers[c].futures
    /\ callers[c].futures[i] = "running"
    /\ LET batch == callers[c].batches[i]
           items == Scored_Before(batch)
           after == _process_single_batch(items,
                        [j \in DOMAIN items |-> "json"],
                        [j \in DOMAIN items |-> "ok"],
                        [mem |-> memory_cache, dsk |-> disk, cache |-> cache],
                        now)
       IN /\ memory_cache' = after.mem
          /\ disk' = after.dsk
          /\ cache' = after.cache
          /\ callers' = [callers EXCEPT ![c].futures[i] =
                            IF TaskRaises(batch) THEN "raised" ELSE "done"]
    /\ UNCHANGED <<processing_queue, dispatch, batchCall, ledger>>

\* A different LoopEnds, for comparison: the collecting loop ends with the
\* first sub-batch it has harvested.
LoopEnds_AfterFirst(cl) == cl.harvested # {}

\* batch_processor.py:62  for future in as_completed(future_to_batch): the
\* loop ends when every submitted sub-batch has been harvested
LoopEnds(cl) == Unharvested(cl) = {}

\* batch_processor.py:62-64  the collecting loop takes a sub-batch that has
\* completed: future.result() returns its results, or raises what the task
\* raised, which ends the call
Harvest(c, i) ==
    /\ callers[c].pc = "l62"
    /\ i \in Unharvested(callers[c])
    /\ callers[c].futures[i] # "running"
    /\ ~LoopEnds(callers[c])
    /\ IF callers[c].futures[i] = "done"
       THEN /\ callers' = [callers EXCEPT
                              ![c].harvested = @ \cup {i},
                              ![c].all_results = @ \o callers[c].batches[i]]
            /\ UNCHANGED <<batchCall, dispatch, ledger>>
       ELSE CallEnds(c, FALSE, <<>>, "AttributeError")
    /\ UNCHANGED <<processing_queue, memory_cache, disk, cache>>

\* batch_processor.py:67  self.processing_queue.clear()
ClearQueue(c) ==
    /\ callers[c].pc = "l62"
    /\ LoopEnds(callers[c])
    /\ processing_queue' = <<>>
    /\ callers' = [callers EXCEPT ![c].pc = "l69"]
    /\ UNCHANGED <<memory_cache, disk, cache, dispatch, batchCall, ledger>>

\* batch_processor.py:69  return all_results
ReturnResults(c) ==
    /\ callers[c].pc = "l69"
    /\ CallEnds(c, FALSE, callers[c].all_results, "")
    /\ UNCHANGED <<processing_queue, memory_cache, disk, cache>>

otherThanCallers == <<now, last, lastSet, nsets, threadVars, req, sc,
                      fusionVars, riskVars, batch_size, requests, executor,
                      timingVars, monitorVars, monitorThreadVars, oracleVars,
                      resultVars>>

CallerStep(c) ==
    /\ \/ \E request \in QueueRequests : AppendRequest(c, request)
       \/ CheckFull(c)
       \/ BeginFlush(c)
       \/ CheckEmpty(c)
       \/ SortQueue(c)
       \/ SubmitBatches(c)
       \/ \E i \in 1 .. Cardinality(QueueRequests) : RunTask(c, i)
       \/ \E i \in 1 .. Cardinality(QueueRequests) : Harvest(c, i)
       \/ ClearQueue(c)
       \/ ReturnResults(c)
    /\ UNCHANGED otherThanCallers

HarvestInit ==
    /\ Start /\ req = NoRequest /\ fusion = NoFusion /\ riskCall = NoRiskCall
    /\ batch_size \in 1 .. MaxBatchSize
    /\ requests = <<>>
    /\ TimingAtRest /\ MonitorAtRest /\ OracleAtRest /\ ResultsAtRest
    /\ callers = [c \in Callers |-> NoCaller]
    /\ ledger = [NoLedger EXCEPT !.offered = QueueRequests,
                                  !.answered = [request \in QueueRequests |-> 0]]

HarvestNext == CallerStep("c1")

SpecHarvest == HarvestInit /\ [][HarvestNext]_vars

QueueThreadsNext == \E c \in Callers : CallerStep(c)

\* The two threads are given the requests whose contents are strings.
QueueThreadsInit ==
    /\ Start /\ req = NoRequest /\ fusion = NoFusion /\ riskCall = NoRiskCall
    /\ batch_size \in 1 .. MaxBatchSize
    /\ requests = <<>>
    /\ TimingAtRest /\ MonitorAtRest /\ OracleAtRest /\ ResultsAtRest
    /\ callers = [c \in Callers |-> NoCaller]
    /\ ledger = [NoLedger EXCEPT
                    !.offered = {r \in QueueRequests : ~ScoringRaises(r)},
                    !.answered = [request \in QueueRequests |-> 0]]

SpecQueueThreads == QueueThreadsInit /\ [][QueueThreadsNext]_vars

\* The single caller's call goes on while it can: the interpreter runs its
\* next statement and a worker ends the scoring of a submitted sub-batch.
Proceeds(c) == InCall(c) /\ CallerStep(c)

SpecHarvestFair == SpecHarvest /\ WF_vars(Proceeds("c1"))

----------------------------------------------------------------------------
(* Claims about the scheduler one statement at a time (SpecHarvest) *)

HarvestFails(c) ==
    /\ callers[c].pc = "l62" /\ callers'[c].pc = "idle"
    /\ batchCall'.raised # ""

SameRequests(q1, q2) ==
    /\ Len(q1) = Len(q2)
    /\ {q1[i] : i \in DOMAIN q1} = {q2[i] : i \in DOMAIN q2}

\* C33: process_batch clears the queue only after the results of all the
\* sub-batches it dispatched have been collected: in no state is the queue
\* empty while a sub-batch of the call in progress is still unharvested, and
\* when the collecting loop fails the call ends with the requests that were
\* pending at the call still in the queue.
C33_ClearOnlyAfterHarvest ==
    [][\A c \in Callers :
          /\ (InCall(c)' /\ Unharvested(callers'[c]) # {})
                => processing_queue' # <<>>
          /\ HarvestFails(c)
                => /\ SameRequests(processing_queue', callers[c].pending)
                   /\ processing_queue' = processing_queue]_vars

\* A flush has just failed in its collecting loop, the first of its two
\* sub-batches having raised and the second ended, and both requests are
\* still pending.
C33_Witness ==
    /\ batchCall.op = "flush_queue" /\ batchCall.raised = "AttributeError"
    /\ Len(dispatch) = 2
    /\ callers["c1"].futures = <<"raised", "done">>
    /\ Len(processing_queue) = 2

ProcessBatchEnds(c) ==
    /\ callers[c].pc \in {"l40", "l62", "l69"}
    /\ callers'[c].pc = "idle"

WellTyped(q) == \A i \in DOMAIN q : ~ScoringRaises(q[i])

OnePerRequest(ret, pending) ==
    /\ Len(ret) = Len(pending)
    /\ \A i \in DOMAIN pending :
          Cardinality({j \in DOMAIN ret : ret[j] = pending[i]}) = 1

----------------------------------------------------------------------------
(* Claims about the scheduler called from two threads (SpecQueueThreads) *)

Times(list, request) == Cardinality({i \in DOMAIN list : list[i] = request})

\* C36 (as stated): no request is lost when add_to_queue and flush_queue are
\* called from several threads: whenever no call is in progress, every
\* request that was appended to the queue either is still pending or has
\* exactly one result in the lists that process_batch calls have returned,
\* and no request has more than one result.
C36_NoRequestLost ==
    (\A c \in Callers : ~InCall(c)) =>
        \A request \in ledger.appended :
            /\ ledger.answered[request] <= 1
            /\ Times(processing_queue, request) = 1
                  \/ ledger.answered[request] = 1

----------------------------------------------------------------------------
(* The results of batch calls as objects (SpecResults).  A result is a      *)
(* dict; heap lists the dicts created so far and a dict is told by its      *)
(* position in heap.  The memory tier of ai_cache holds a dict itself, the  *)
(* disk tier a pickled copy of what the dict held when it was stored, and   *)
(* lightweight_ai.cache holds the dict that analyze_content_enhanced        *)
(* returned.  A run makes batch calls of one sub-batch each, by one caller, *)
(* and lets time pass between them.                                         *)

MaxBatchCalls == 2   \* batch calls per run

\* lightweight_enhancer.py:188-193, :257-268, :280-291: a dict as the
\* scorer returns it, without cache_hit and the request's metadata
Dict(kind) == [kind |-> kind, cache_hit |-> FALSE, market_id |-> None,
               priority |-> 0, batch_index |-> -1]

\* batch_processor.py:79-83  batch_cache_analysis(..., ttl=1800); the clock
\* counts in units of 1800 s
BatchTtl == <<1>>

\* cache_manager.py:32-60 get(key) on the cache of dicts: a memory hit
\* returns the dict held in memory, a disk hit a dict loaded from the file,
\* which is promoted; found is 0 for None
Found(st, k, t) ==
    IF MemHit(st.mem, k, t)
    THEN [st EXCEPT !.found = st.mem[k].data]
    ELSE IF DiskHit(st.dsk, k, t)
    THEN [st EXCEPT !.heap = Append(@, st.dsk[k].data),
                    !.mem = [MemAfterCheck(st.mem, k, t) EXCEPT
                                ![k] = Entry(Len(st.heap) + 1,
                                             st.dsk[k].timestamp, st.dsk[k].ttl)],
                    !.found = Len(st.heap) + 1]
    ELSE [st EXCEPT !.mem = MemAfterCheck(st.mem, k, t),
                    !.dsk = GetDisk(st.mem, st.dsk, k, t),
                    !.found = 0]

\* cache_manager.py:156  if cached_result:
WhenCached(found) == found # 0

\* cache_manager.py:152-163: the cache is consulted for each item from i on
RECURSIVE CheckItems(_, _, _, _)
CheckItems(items, i, st, t) ==
    IF i > Len(items) THEN st
    ELSE LET got == Found(st, AiCacheKey(items[i].content, items[i].url), t) IN
         CheckItems(items, i + 1,
             IF WhenCached(got.found)
             THEN [got EXCEPT !.heap[got.found].cache_hit = TRUE,           \* :157
                              !.results = Append(@, got.found)]
             ELSE [got EXCEPT !.results = Append(@, 0)],                    \* :160
             t)

\* cache_manager.py:166-177: each item left without a result is analysed,
\* its dict gets cache_hit = False and is stored under the item's key
RECURSIVE AnalyzeItems(_, _, _, _, _, _, _)
AnalyzeItems(items, i, ais, ws, ttl, st, t) ==
    IF i > Len(items) THEN st
    ELSE IF st.results[i] # 0 THEN AnalyzeItems(items, i + 1, ais, ws, ttl, st, t)
    ELSE LET k == AiCacheKey(items[i].content, items[i].url)
             r == _analyze_single_item(items[i].content, items[i].url, ais[i],
                                       BatchReply, st.cache, t)
             o == IF r.from_cache THEN st.lw_held[k] ELSE Len(st.heap) + 1
             made == IF r.from_cache THEN st.heap
                     ELSE Append(st.heap, Dict(r.result.kind))
             result == [made EXCEPT ![o].cache_hit = FALSE]                 \* :172
         IN AnalyzeItems(items, i + 1, ais, ws, ttl,
                [st EXCEPT !.heap = result,
                           !.cache = r.cache,
                           !.lw_held = IF r.cache # st.cache
                                       THEN [@ EXCEPT ![k] = o] ELSE @,
                           !.results[i] = o,                                \* :173
                           !.analysed[i] = @ + 1,
                           !.mem = SetMem(@, k, o, ttl, t),                 \* :177
                           !.dsk = SetDisk(@, k, result[o], ttl, t, ws[i])],
                t)

\* cache_manager.py:145-179
batch_cache_analysis(items, ais, ws, ttl, st, t) ==
    AnalyzeItems(items, 1, ais, ws, ttl,
                 CheckItems(items, 1,
                            [st EXCEPT !.results = <<>>,
                                       !.analysed = [i \in DOMAIN items |-> 0]],
                            t),
                 t)

\* batch_processor.py:88-90: the request's metadata is written into the dict
Tagged(dict, request, i) ==
    [dict EXCEPT !.market_id = request.market_id,
                 !.priority = request.priority,
                 !.batch_index = i - 1]

\* batch_processor.py:86-91: each result is combined with its request
RECURSIVE CombineWithMetadata(_, _, _)
CombineWithMetadata(batch, i, st) ==
    IF i > Len(batch) THEN st
    ELSE CombineWithMetadata(batch, i + 1,
             [st EXCEPT !.heap[st.results[i]] = Tagged(@, batch[i], i)])

\* batch_processor.py:71-93 _process_single_batch, with its results
ProcessSingleBatch(batch, ais, ws, st, t) ==
    CombineWithMetadata(batch, 1,
        batch_cache_analysis(batch, ais, ws, BatchTtl, st, t))

\* The sub-batches tried: a request alone, two requests for the same
\* content and url, and two requests for different contents that the sort
\* leaves in place or exchanges.
TagBatches ==
    LET rates1 == BatchAnalysisRequest(ContentById("rates"), "medium", "m1", 1)
        rates2 == BatchAnalysisRequest(ContentById("rates"), "medium", "m2", 1)
        moon1 == BatchAnalysisRequest(ContentById("moon"), "low", "m2", 1)
        moon2 == BatchAnalysisRequest(ContentById("moon"), "low", "m1", 2)
    IN {<<rates1>>, <<rates2>>, <<moon1>>, <<rates1, rates2>>,
        <<rates1, moon2>>, <<moon2, rates2>>}

\* batch_processor.py:38-69 process_batch on a queue that holds the requests
\* of batch, fewer than batch_size: one sub-batch is dispatched and its
\* results are returned
ProcessBatchOf(batch, ai) ==
    /\ tagCall.n < MaxBatchCalls
    /\ LET st == ProcessSingleBatch(SortByPriority(batch),
                     [i \in DOMAIN batch |-> ai], [i \in DOMAIN batch |-> "ok"],
                     [mem |-> memory_cache, dsk |-> disk, cache |-> cache,
                      lw_held |-> lw_held, heap |-> heap, found |-> 0,
                      results |-> <<>>, analysed |-> <<>>],
                     now)
       IN /\ memory_cache' = st.mem
          /\ disk' = st.dsk
          /\ cache' = st.cache
          /\ lw_held' = st.lw_held
          /\ heap' = st.heap
          /\ handed' = handed \o [i \in DOMAIN batch |->
                                     [request |-> SortByPriority(batch)[i],
                                      index |-> i - 1,
                                      obj |-> st.results[i]]]
          /\ tagCall' = [n |-> tagCall.n + 1, batch |-> SortByPriority(batch),
                         results |-> st.results, analysed |-> st.analysed,
                         ttl |-> BatchTtl]
    /\ UNCHANGED <<now, last, lastSet, nsets, threadVars, req, sc, fusionVars,
                   riskVars, batchVars, timingVars, monitorVars,
                   monitorThreadVars, oracleVars, callerVars>>

\* The ttl arguments given to batch_cache_analysis: 0 and 1800 s.
GivenTtls == {<<0>>, <<1>>}

\* cache_manager.py:145-179 batch_cache_analysis called with
\* _analyze_single_item, the (content, url) pairs of batch and a ttl
CallBatchCacheAnalysis(batch, ai, ttl) ==
    /\ tagCall.n < MaxBatchCalls
    /\ LET st == batch_cache_analysis(batch,
                     [i \in DOMAIN batch |-> ai], [i \in DOMAIN batch |-> "ok"],
                     ttl,
                     [mem |-> memory_cache, dsk |-> disk, cache |-> cache,
                      lw_held |-> lw_held, heap |-> heap, found |-> 0,
                      results |-> <<>>, analysed |-> <<>>],
                     now)
       IN /\ memory_cache' = st.mem
          /\ disk' = st.dsk
          /\ cache' = st.cache
          /\ lw_held' = st.lw_held
          /\ heap' = st.heap
          /\ tagCall' = [n |-> tagCall.n + 1, batch |-> batch,
                         results |-> st.results, analysed |-> st.analysed,
                         ttl |-> ttl]
    /\ UNCHANGED <<now, last, lastSet, nsets, threadVars, req, sc, fusionVars,
                   riskVars, batchVars, timingVars, monitorVars,
                   monitorThreadVars, oracleVars, callerVars, handed>>

ResultsTick ==
    /\ now < MaxTime
    /\ now' = now + 1
    /\ UNCHANGED <<cacheVars, threadVars, scorerVars, serviceVars>>

ResultsNext ==
    \/ \E batch \in TagBatches, ai \in BatchAi : ProcessBatchOf(batch, ai)
    \/ ResultsTick

SpecResults == CacheInit /\ [][ResultsNext]_vars

\* batch_cache_analysis called directly, with the ttl its caller chooses
ItemsNext ==
    \/ \E batch \in TagBatches, ai \in BatchAi, ttl \in GivenTtls :
          CallBatchCacheAnalysis(batch, ai, ttl)
    \/ ResultsTick

SpecItems == CacheInit /\ [][ItemsNext]_vars

----------------------------------------------------------------------------
(* Claims about the results of batch calls (SpecResults) *)

\* C35 (as stated): every result returned by process_batch carries the
\* market_id, priority and batch_index of its own request and keeps them
\* afterwards, also when two requests of the same call or of different calls
\* have the same content and url and share one cache entry: tagging one
\* result changes no result that has been returned for another request.
C35_ResultsKeepTheirTags ==
    \A i \in DOMAIN handed :
        /\ heap[handed[i].obj].market_id = handed[i].request.market_id
        /\ heap[handed[i].obj].priority = handed[i].request.priority
        /\ heap[handed[i].obj].batch_index = handed[i].index

BatchCall ==
    \E batch \in TagBatches, ai \in BatchAi, ttl \in GivenTtls :
        CallBatchCacheAnalysis(batch, ai, ttl)

HasValidResult(k) == MemHit(memory_cache, k, now) \/ DiskHit(disk, k, now)

\* C37 (as stated): in batch_cache_analysis, for every item whose key has a valid cached
\* result the analysis function is not invoked and the result returned has
\* cache_hit = True; for every other item the analysis function is invoked
\* once, its result is returned at the item's position with cache_hit =
\* False and a result of that analysis is stored under the item's key, in
\* both tiers, with the ttl given and the time of the call, whether it is a
\* fused result or a heuristic fallback.
C37_HitsSkipAnalysisMissesAreStored ==
    [][BatchCall =>
          \A i \in DOMAIN tagCall'.batch :
              LET k == AiCacheKey(tagCall'.batch[i].content, tagCall'.batch[i].url)
                  result == heap'[tagCall'.results[i]]
              IN IF HasValidResult(k)
                 THEN /\ tagCall'.analysed[i] = 0
                      /\ result.cache_hit
                      /\ result.kind = heap[memory_cache[k].data].kind
                 ELSE /\ tagCall'.analysed[i] = 1
                      /\ ~result.cache_hit
                      /\ memory_cache'[k].kind = "entry"
                      /\ heap'[memory_cache'[k].data].kind = result.kind
                      /\ memory_cache'[k].timestamp = now
                      /\ memory_cache'[k].ttl = tagCall'.ttl[1]
                      /\ disk'[k].kind = "entry"
                      /\ disk'[k].data.kind = result.kind
                      /\ disk'[k].timestamp = now
                      /\ disk'[k].ttl = tagCall'.ttl[1]]_vars

----------------------------------------------------------------------------
(* The monitor_performance decorator (SpecWrapper):                         *)
(* performance_monitor.py:189-223.  One action is one invocation of a       *)
(* wrapped function, the function's outcome being drawn.                    *)

MaxWrapped == 3   \* invocations of the wrapped function per run

\* The dicts a wrapped function returns: the keys present and their values
\* (the value of an absent key is not read).
ResultDict(present, cache_hit, enhanced_analysis, ai_version, fallback_used,
           fallback_mode) ==
    [type |-> "dict", present |-> present, cache_hit |-> cache_hit,
     enhanced_analysis |-> enhanced_analysis, ai_version |-> ai_version,
     fallback_used |-> fallback_used, fallback_mode |-> fallback_mode]

\* A result that is no dict: a list, as process_batch returns.
ResultList == [ResultDict({}, FALSE, FALSE, "", FALSE, FALSE) EXCEPT !.type = "list"]

WrappedResults ==
    { ResultDict({"cache_hit"}, TRUE, FALSE, "", FALSE, FALSE),
      ResultDict({"cache_hit", "fallback_used"}, FALSE, FALSE, "", TRUE, FALSE),
      ResultDict({"fallback_mode", "enhanced_analysis"}, FALSE, TRUE, "", FALSE, TRUE),
      ResultDict({"cache_hit", "ai_version"}, FALSE, FALSE, "v2", FALSE, FALSE),
      ResultDict({}, FALSE, FALSE, "", FALSE, FALSE),
      ResultList }

\* The exceptions a wrapped function raises, and those among them that are
\* subclasses of Exception (KeyboardInterrupt and SystemExit derive from
\* BaseException only).
WrappedExceptions == {"ValueError", "KeyboardInterrupt", "SystemExit"}
DerivesFromException(exc) == exc = "ValueError"

\* What one invocation of the wrapped function does: it returns result or
\* raises exc, after `took` seconds.
WrappedOutcomes ==
    [exc : {""}, result : WrappedResults, took : {0, 2}]
        \cup [exc : WrappedExceptions, result : {ResultList}, took : {0, 2}]

\* dict.get(key, False)
GetFlag(result, key) ==
    IF key \in result.present
    THEN CASE key = "cache_hit" -> result.cache_hit
           [] key = "enhanced_analysis" -> result.enhanced_analysis
           [] key = "fallback_used" -> result.fallback_used
           [] key = "fallback_mode" -> result.fallback_mode
    ELSE FALSE

\* performance_monitor.py:193-206: the flags as initialised, then read off a
\* result that is a dict
FlagsOf(outcome) ==
    IF outcome.exc = "" /\ outcome.result.type = "dict"
    THEN [cache_hit |-> GetFlag(outcome.result, "cache_hit"),
          ai_used |-> \/ GetFlag(outcome.result, "enhanced_analysis")
                      \/ ("ai_version" \in outcome.result.present
                            /\ outcome.result.ai_version # ""),
          fallback_used |-> \/ GetFlag(outcome.result, "fallback_used")
                            \/ GetFlag(outcome.result, "fallback_mode")]
    ELSE [cache_hit |-> FALSE, ai_used |-> FALSE, fallback_used |-> FALSE]

\* performance_monitor.py:209-211 `except Exception as e`: the handler that
\* sets error_occurred runs for these outcomes
Caught(outcome) == outcome.exc # "" /\ DerivesFromException(outcome.exc)

\* performance_monitor.py:191-221 wrapper: the call of func, then the
\* finally clause recording one sample; the result is returned resp. the
\* exception goes on to the caller
Wrapper(outcome) ==
    /\ metrics.total_requests < MaxWrapped
    /\ LET flags == FlagsOf(outcome)
           sample == Sample(outcome.took, flags.cache_hit, flags.ai_used,
                            flags.fallback_used, Caught(outcome))
           r == record_request(metrics, request_times, sample)
       IN /\ metrics' = r.metrics
          /\ request_times' = r.request_times
          /\ monitorCall' = [op |-> "wrapper", ret |-> <<outcome.result>>,
                             raised |-> outcome.exc, took |-> outcome.took]
    /\ UNCHANGED <<otherThanMonitor, monitorThreadVars, workload>>

WrapperNext ==
    \/ \E outcome \in WrappedOutcomes : Wrapper(outcome)
    \/ ResetMetrics

WrapperInit == Start /\ NothingDrawn /\ AtRest

SpecWrapper == WrapperInit /\ [][WrapperNext]_vars

----------------------------------------------------------------------------
(* Claims about the decorator (SpecWrapper) *)

Invocation == \E outcome \in WrappedOutcomes : Wrapper(outcome)

\* The flag a returned result carries under key: a result without the key,
\* or one that is no dict, carries none.
Carries(result, key) ==
    /\ result.type = "dict" /\ key \in result.present
    /\ \/ key = "cache_hit" /\ result.cache_hit
       \/ key = "fallback_used" /\ result.fallback_used
       \/ key = "fallback_mode" /\ result.fallback_mode

\* C38 (as stated): a function wrapped by monitor_performance records
\* exactly one sample per invocation.  When the function returns, the caller
\* gets the result, the sample's cache_hit and fallback flags are those of
\* the result and it is not counted as an error; when the function raises,
\* the sample is counted as an error and the same exception reaches the
\* caller.
C38_OneSamplePerInvocation ==
    [][Invocation =>
         LET result == monitorCall'.ret[1]
             raised == monitorCall'.raised
         IN /\ metrics'.total_requests = metrics.total_requests + 1
            /\ request_times' = Append(request_times, monitorCall'.took)
            /\ raised = "" =>
                  /\ metrics'.cache_hits =
                        Bump(metrics.cache_hits, Carries(result, "cache_hit"))
                  /\ metrics'.fallback_used =
                        Bump(metrics.fallback_used,
                             Carries(result, "fallback_used")
                                \/ Carries(result, "fallback_mode"))
                  /\ metrics'.error_count = metrics.error_count
            /\ raised # "" => metrics'.error_count = metrics.error_count + 1
    ]_vars

=============================================================================
